---- MODULE Spec2Model ----
(***************************************************************************)
(* Portfolio site: the interactive layer (js/modules/interactions.js,      *)
(* js/modules/scroll.js, mirrored in js/main.js) and the service worker.   *)
(*                                                                         *)
(* Three state machines share one set of variables:                        *)
(*   SpecToggle  certification badges / project cards and their timers     *)
(*   SpecNav     scroll position -> active section -> sidebar window       *)
(*   SpecSW      service worker lifecycle, fetch and message handlers      *)
(* Each specification holds the other machines' variables at rest.         *)
(***************************************************************************)
EXTENDS Integers, Sequences, FiniteSets, TLC

VARIABLES
    \* ---- toggle groups (interactions.js) ----
    certExpanded,   \* set of .cert-badge elements carrying class 'expanded'
    projExpanded,   \* set of .project-card elements carrying class 'expanded'
    certHeight,     \* badge -> inline style.height
    timers,         \* pending setTimeout callbacks, in creation order
    \* ---- scroll / sidebar (scroll.js) ----
    page,           \* the document: sections, links, sidebar parts, sizes
    scrollY,        \* window.scrollY
    linkActive,     \* link index -> has class 'active'
    linkStyle,      \* link index -> [opacity, visibility, pointerEvents, ariaHidden]
    navTransform,   \* navList.style.transform was written
    \* ---- service worker ----
    swState,        \* lifecycle state of this worker version
    skipWaitingFlag,\* self.skipWaiting() was called
    caches,         \* CacheStorage: cache name -> (url -> response), or absent
    activation,     \* progress of the activate handler
    oldClients,     \* a previous worker version still controls open pages
    fetches,        \* handler slot -> fetch event being handled
    pendingPuts,    \* cache writes started by fetch handlers, not yet done
    msgs,           \* handler slot -> message event being handled
    oldWrites,      \* cache writes of the previous version's fetch handlers, not yet done
    \* ---- quote of the day (quotes.js) ----
    quoteEls,       \* which of the elements #quote, #quote-author the page has
    quoteText,      \* #quote's textContent
    quoteAuthor,    \* #quote-author's textContent
    \* ---- audience tabs (interactions.js) ----
    tabPage,        \* the tabs' data-audience and the panels' data-content values
    tabActive,      \* set of .audience-tab elements carrying class 'active'
    panelActive,    \* set of panels carrying class 'active'
    tabSelected,    \* tab -> aria-selected
    panelHidden,    \* panel -> aria-hidden
    \* ---- throttle / debounce (utils.js) ----
    now,            \* the clock, in ms
    inThrottle,     \* the throttled wrapper's flag
    timeouts,       \* pending setTimeout callbacks of the wrappers
    history,        \* what the wrapped functions were called with, and when
    \* ---- error handler (error-handler module, mirrored in the single file) ----
    errors,         \* errorState.errors
    listeners,      \* errorState.listeners: what each listener does when called
    logged,         \* how many entries logError has made so far
    net,            \* the call of handleNetworkRequest in progress
    \* ---- application entry point (initializeApp) ----
    doc,            \* which of #floatingContact, #contact and e-mail elements the page has
    floatStyle,     \* #floatingContact: [opacity, pointerEvents, ariaHidden]
    emailText,      \* e-mail element -> textContent
    registered,     \* the event listeners the script has registered
    \* ---- history ----
    last            \* the page operation that produced the current state

toggleVars == <<certExpanded, projExpanded, certHeight, timers>>
navVars    == <<page, scrollY, linkActive, linkStyle, navTransform>>
swVars     == <<swState, skipWaitingFlag, caches, activation, oldClients, fetches,
               pendingPuts, msgs, oldWrites>>
quoteVars  == <<quoteEls, quoteText, quoteAuthor>>
tabVars    == <<tabPage, tabActive, panelActive, tabSelected, panelHidden>>
utilVars   == <<now, inThrottle, timeouts, history>>
errVars    == <<errors, listeners, logged>>
initVars   == <<doc, floatStyle, emailText, registered>>
appVars    == <<errVars, net, initVars>>
uiVars     == <<quoteVars, tabVars, utilVars, appVars>>
vars       == <<toggleVars, navVars, swVars, uiVars, last>>

\* ---- small helpers ------------------------------------------------------
Max2(a, b) == IF a >= b THEN a ELSE b
Min2(a, b) == IF a <= b THEN a ELSE b
Abs(x)     == IF x < 0 THEN -x ELSE x

(***************************************************************************)
(* TOGGLE GROUPS                                                           *)
(***************************************************************************)
NumBadges  == 2
NumCards   == 2
MaxTimers  == 2

Badges == 1..NumBadges
Cards  == 1..NumCards

CERT_COLLAPSED_HEIGHT == "275px"
SCROLL_DELAY          == 300
ANIMATION_DURATION    == 600
MeasuredHeight        == "scrollHeightPx"   \* `${element.scrollHeight}px`

\* Where a DOM operation of collapseWithAnimation may throw.
CollapseOutcomes == {"ok", "throwMeasure", "throwReflow"}

\* The toggle machine's state as one value, so that the helpers compose.
ToggleState == [exp |-> certExpanded, height |-> certHeight, tm |-> timers]

CleanupTimer(b) == [kind |-> "cleanup", grp |-> "cert", el |-> b, due |-> ANIMATION_DURATION]
\* Mutant: the scroll is scheduled with no delay.
ScrollTimerAtOnce(g, e) == [kind |-> "scroll", grp |-> g, el |-> e, due |-> 0]

ScrollTimer(g, e) == [kind |-> "scroll", grp |-> g, el |-> e, due |-> SCROLL_DELAY]

\* Mutant: the catch block logs the error and leaves the class as it is.
collapseWithAnimationNoFallback(st, b, o) ==
    CASE o = "ok" ->
           [exp |-> st.exp \ {b},
            height |-> [st.height EXCEPT ![b] = CERT_COLLAPSED_HEIGHT],
            tm |-> Append(st.tm, CleanupTimer(b))]
      [] o = "throwMeasure" -> st
      [] o = "throwReflow" ->
           [st EXCEPT !.height = [st.height EXCEPT ![b] = MeasuredHeight]]

\* collapseWithAnimation(element); o says whether and where the DOM throws.
collapseWithAnimation(st, b, o) ==
    CASE o = "ok" ->
           [exp |-> st.exp \ {b},
            height |-> [st.height EXCEPT ![b] = CERT_COLLAPSED_HEIGHT],
            tm |-> Append(st.tm, CleanupTimer(b))]
      [] o = "throwMeasure" ->     \* reading scrollHeight / first assignment throws
           [st EXCEPT !.exp = st.exp \ {b}]
      [] o = "throwReflow" ->      \* throws after the measured height was written
           [st EXCEPT !.exp = st.exp \ {b},
                      !.height = [st.height EXCEPT ![b] = MeasuredHeight]]

\* expandedBadges.forEach(badge => { if (badge !== element) collapse(badge) }),
\* over the badges i..NumBadges in document order; sel is the query result.
RECURSIVE CollapseOthersFrom(_, _, _, _, _)
CollapseOthersFrom(st, sel, element, outs, i) ==
    IF i > NumBadges THEN st
    ELSE IF i \in sel /\ i # element
         THEN CollapseOthersFrom(collapseWithAnimation(st, i, outs[i]), sel, element, outs, i + 1)
         ELSE CollapseOthersFrom(st, sel, element, outs, i + 1)

\* Mutant: the loop that closes the other badges is missing.
CollapseOthersSkipped(st, element, outs) == st

CollapseOthers(st, element, outs) ==
    CollapseOthersFrom(st, st.exp, element, outs, 1)

\* Mutant: the target is always expanded, whatever its state was.
ToggleCurrentCertAlwaysExpands(st, element, isExpanded, outs) ==
    [st EXCEPT !.exp = st.exp \cup {element},
               !.tm = Append(st.tm, ScrollTimer("cert", element))]

\* "Toggle current certificate"
ToggleCurrentCert(st, element, isExpanded, outs) ==
    IF isExpanded
    THEN collapseWithAnimation(st, element, outs[element])
    ELSE [st EXCEPT !.exp = st.exp \cup {element},
                    !.tm = Append(st.tm, ScrollTimer("cert", element))]

\* toggleCert(element) as a function of the state before it.
toggleCertResult(st, element, outs) ==
    LET isExpanded == element \in st.exp
    IN  ToggleCurrentCert(CollapseOthers(st, element, outs), element, isExpanded, outs)

\* null, where an element is expected.
NoElement == 0

toggleCert(element) ==
    IF element = NoElement          \* if (!element) return
    THEN /\ last' = [op |-> "toggleNoElement", fn |-> "toggleCert"]
         /\ UNCHANGED <<toggleVars, navVars, swVars, uiVars>>
    ELSE \E outs \in [certExpanded -> CollapseOutcomes] :
        LET r == toggleCertResult(ToggleState, element, outs)
        IN  /\ Len(r.tm) <= MaxTimers
            /\ certExpanded' = r.exp
            /\ certHeight' = r.height
            /\ timers' = r.tm
            /\ last' = [op |-> "toggleCert", el |-> element,
                        wasExpanded |-> element \in certExpanded,
                        threw |-> {b \in certExpanded : outs[b] # "ok"}]
            /\ UNCHANGED <<projExpanded, navVars, swVars, uiVars>>

\* expandedProjects.forEach(p => { if (p !== element) p.classList.remove('expanded') })
ProjectCollapseOthers(exp, element) == exp \cap {element}

toggleProjectResult(exp, element) ==
    LET isExpanded == element \in exp
        afterOthers == ProjectCollapseOthers(exp, element)
    IN  IF isExpanded THEN afterOthers \ {element} ELSE afterOthers \cup {element}

\* Mutant: expanding a project card closes the certification badges too.
toggleProjectClosesBadges(element) ==
    LET wasExpanded == element \in projExpanded
    IN  /\ Len(timers) + (IF wasExpanded THEN 0 ELSE 1) <= MaxTimers
        /\ projExpanded' = toggleProjectResult(projExpanded, element)
        /\ certExpanded' = {}
        /\ timers' = IF wasExpanded THEN timers
                     ELSE Append(timers, ScrollTimer("project", element))
        /\ last' = [op |-> "toggleProject", el |-> element, wasExpanded |-> wasExpanded]
        /\ UNCHANGED <<certHeight, navVars, swVars, uiVars>>

toggleProject(element) ==
    LET wasExpanded == element \in projExpanded
    IN  IF element = NoElement      \* if (!element) return
        THEN /\ last' = [op |-> "toggleNoElement", fn |-> "toggleProject"]
             /\ UNCHANGED <<toggleVars, navVars, swVars, uiVars>>
        ELSE
        /\ Len(timers) + (IF wasExpanded THEN 0 ELSE 1) <= MaxTimers
        /\ projExpanded' = toggleProjectResult(projExpanded, element)
        /\ timers' = IF wasExpanded THEN timers
                     ELSE Append(timers, ScrollTimer("project", element))
        /\ last' = [op |-> "toggleProject", el |-> element, wasExpanded |-> wasExpanded]
        /\ UNCHANGED <<certExpanded, certHeight, navVars, swVars, uiVars>>

RemoveAt(s, i) == [j \in 1..(Len(s) - 1) |-> IF j < i THEN s[j] ELSE s[j + 1]]

\* A due setTimeout callback runs.
TimerFires(i) ==
    /\ i \in 1..Len(timers)
    /\ timers[i].due = 0
    /\ timers' = RemoveAt(timers, i)
    /\ IF timers[i].kind = "cleanup"
       THEN certHeight' = [certHeight EXCEPT ![timers[i].el] = ""]   \* style.height = ''
       ELSE UNCHANGED certHeight                                     \* scrollIntoViewSafe
    /\ last' = [op |-> timers[i].kind, el |-> timers[i].el, grp |-> timers[i].grp]
    /\ UNCHANGED <<certExpanded, projExpanded, navVars, swVars, uiVars>>

\* Time passes: SCROLL_DELAY ms, once no pending timer is due.
Tick ==
    /\ timers # <<>>
    /\ \A i \in 1..Len(timers) : timers[i].due > 0
    /\ timers' = [i \in 1..Len(timers) |->
                    [timers[i] EXCEPT !.due = Max2(0, timers[i].due - SCROLL_DELAY)]]
    /\ last' = [op |-> "tick"]
    /\ UNCHANGED <<certExpanded, projExpanded, certHeight, navVars, swVars, uiVars>>

ToggleInit ==
    /\ certExpanded = {}
    /\ projExpanded = {}
    /\ certHeight = [b \in Badges |-> ""]
    /\ timers = <<>>

(***************************************************************************)
(* SCROLL / SIDEBAR                                                        *)
(***************************************************************************)
NAVBAR_OFFSET    == 150
BOTTOM_THRESHOLD == 10
VISIBLE_ITEMS    == 5

MaxSections   == 7      \* sections on a page: 0..MaxSections
HeroHeight    == 300    \* content above the first section, when there is some
SectionHeight == 400    \* height of every section but the last
LastHeight    == 200    \* height of the last section (shorter than the viewport)
NestedTop     == 100    \* offsetTop of a section nested in a positioned parent
ViewportHeight == 500   \* window.innerHeight

\* Offsets of n sections laid out one under the other, the first at firstTop.
\* In the "nested" layout the second section sits inside a positioned parent,
\* so its offsetTop is relative to that parent and smaller than the first's.
SectionOffsets(n, firstTop, layout) ==
    [k \in 0..(n - 1) |->
        IF layout = "nested" /\ k = 1 THEN NestedTop
        ELSE firstTop + k * SectionHeight]

ContentHeight(n, firstTop) ==
    IF n = 0 THEN firstTop ELSE firstTop + (n - 1) * SectionHeight + LastHeight

\* href of each sidebar link: the index of the section it names, or -1 for an
\* anchor that is not a section[id] (such as "#top").
LinkHrefs(n, linking) ==
    CASE linking = "each"    -> [j \in 0..(n - 1) |-> j]
      [] linking = "noFirst" -> [j \in 0..(n - 2) |-> j + 1]
      [] linking = "topLink" -> [j \in 0..n |-> j - 1]

MakePage(n, firstTop, layout, linking, parts) ==
    [offsets      |-> SectionOffsets(n, firstTop, layout),
     nSections    |-> n,
     hrefs        |-> LinkHrefs(n, linking),
     nLinks       |-> Cardinality(DOMAIN LinkHrefs(n, linking)),
     sidebar      |-> parts # "noSidebar",
     arcContainer |-> parts \notin {"noSidebar", "noArc"},
     navList      |-> parts \notin {"noSidebar", "noNavList"},
     innerHeight  |-> ViewportHeight,
     scrollHeight |-> Max2(ViewportHeight, ContentHeight(n, firstTop)),
     script       |-> "modules"]

\* The same document loading the single-file script js/main.js instead of
\* the ES modules.
WithMainScript(p) == [p EXCEPT !.script = "main"]

\* The documents, as far as their markup goes.
Documents ==
    {MakePage(n, ft, "flow", lk, "full") :
        n \in 1..MaxSections, ft \in {0, HeroHeight}, lk \in {"each", "noFirst", "topLink"}}
    \cup {MakePage(n, HeroHeight, "nested", "each", "full") : n \in 2..MaxSections}
    \cup {MakePage(2, 0, "flow", "each", pt) : pt \in {"noSidebar", "noArc", "noNavList"}}
    \cup {MakePage(0, HeroHeight, "flow", "topLink", "full")}

\* The documents a script is loaded into: each with the ES modules, and each
\* with js/main.js.
Pages == Documents \cup {WithMainScript(p) : p \in Documents}

MaxScroll(p) == p.scrollHeight - p.innerHeight

\* Scroll positions tried: around every section's threshold and around the
\* bottom threshold, within what the document allows.
ScrollPositions(p) ==
    {y \in ({0, MaxScroll(p)}
            \cup {p.offsets[k] - NAVBAR_OFFSET + d : k \in DOMAIN p.offsets, d \in {-1, 0, 1}}
            \cup {MaxScroll(p) - BOTTOM_THRESHOLD + d : d \in {-1, 0, 1}}) :
        0 <= y /\ y <= MaxScroll(p)}

\* sections.forEach(section => { if (scrollY >= offsetTop - NAVBAR_OFFSET) cur = id })
\* from section k on, cur being the value so far.
RECURSIVE FindCurrentSection(_, _, _, _)
FindCurrentSection(offs, y, cur, k) ==
    IF k \notin DOMAIN offs THEN cur
    ELSE FindCurrentSection(offs, y,
                            IF y >= offs[k] - NAVBAR_OFFSET THEN k ELSE cur, k + 1)

\* Mutant: the bottom test forgets the threshold.
IsAtBottomExact(p, y) == y + p.innerHeight >= p.scrollHeight

IsAtBottom(p, y) == y + p.innerHeight >= p.scrollHeight - BOTTOM_THRESHOLD

\* Mutant: the scan starts from no section at all.
CurrentSectionNoDefault(p, y) ==
    LET scanned == FindCurrentSection(p.offsets, y, -1, 0)
    IN  IF IsAtBottom(p, y) /\ p.nSections > 0 THEN p.nSections - 1 ELSE scanned

\* currentSection (as the section's index) of updateActiveNavLink.
CurrentSection(p, y) ==
    LET scanned == FindCurrentSection(p.offsets, y, 0, 0)
    IN  IF IsAtBottom(p, y) /\ p.nSections > 0 THEN p.nSections - 1 ELSE scanned

\* links.findIndex(l => l.classList.contains('active'))
FindActiveIndex(active) ==
    IF \E j \in DOMAIN active : active[j]
    THEN CHOOSE j \in DOMAIN active :
            active[j] /\ \A i \in DOMAIN active : active[i] => j <= i
    ELSE -1

\* Mutant: the window is cut at the end of the list, not shifted back.
VisibleWindowCut(activeIndex, n) ==
    LET ws == Max2(0, activeIndex - (VISIBLE_ITEMS \div 2))
    IN  [start |-> ws, end |-> Min2(n - 1, ws + VISIBLE_ITEMS - 1)]

\* "Calculate visible window"
VisibleWindow(activeIndex, n) ==
    LET halfWindow == VISIBLE_ITEMS \div 2
        ws0 == activeIndex - halfWindow
        ws1 == IF ws0 < 0 THEN 0 ELSE ws0
        we1 == ws1 + VISIBLE_ITEMS - 1
    IN  IF we1 >= n
        THEN [start |-> Max2(0, (n - 1) - VISIBLE_ITEMS + 1), end |-> n - 1]
        ELSE [start |-> ws1, end |-> we1]

UnsetStyle == [opacity |-> "", visibility |-> "", pointerEvents |-> "", ariaHidden |-> ""]

\* Mutant: every link of the window is shown at full opacity.
LinkStyleForFlat(index, activeIndex, w) ==
    IF ~(index >= w.start /\ index <= w.end)
    THEN [opacity |-> "0", visibility |-> "hidden",
          pointerEvents |-> "none", ariaHidden |-> "true"]
    ELSE [opacity |-> "1", visibility |-> "visible", pointerEvents |-> "auto",
          ariaHidden |-> "false"]

\* "Update link visibility and opacity" for one link (modules/scroll.js).
LinkStyleFor(index, activeIndex, w) ==
    LET inWindow == index >= w.start /\ index <= w.end
        distance == Min2(2, Abs(index - activeIndex))
    IN  IF ~inWindow
        THEN [opacity |-> "0", visibility |-> "hidden",
              pointerEvents |-> "none", ariaHidden |-> "true"]
        ELSE [opacity |-> IF distance = 0 THEN "1" ELSE IF distance = 1 THEN "0.5" ELSE "0.3",
              visibility |-> "visible", pointerEvents |-> "auto", ariaHidden |-> "false"]

\* "Update visibility" for one link in js/main.js: the same styles, and the
\* aria-hidden attribute is not written.
LinkStyleForMain(style, index, activeIndex, w) ==
    [LinkStyleFor(index, activeIndex, w) EXCEPT !.ariaHidden = style.ariaHidden]

\* The sidebar as updateActiveNavLink reads and writes it.
Sidebar == [linkActive |-> linkActive, linkStyle |-> linkStyle, navTransform |-> navTransform]

\* updateActiveNavLink() of the script p.script, on document p scrolled to y,
\* as a function of the sidebar sb before it: the sidebar after it, whether the
\* function returned early, and its currentSection and activeIndex.
updateActiveNavLinkResult(p, y, sb) ==
    IF ~p.sidebar \/ p.nSections = 0 \/ p.nLinks = 0 \/ ~p.arcContainer \/ ~p.navList
    THEN [sidebar |-> sb, early |-> TRUE, currentSection |-> -1, activeIndex |-> -1]
    ELSE LET cur    == CurrentSection(p, y)
             active == [j \in DOMAIN p.hrefs |-> p.hrefs[j] = cur]
             a      == FindActiveIndex(active)
             w      == VisibleWindow(a, p.nLinks)
         IN  [sidebar |->
                 IF a = -1
                 THEN [sb EXCEPT !.linkActive = active]
                 ELSE [linkActive |-> active,
                       navTransform |-> [set |-> TRUE, centredOn |-> a],
                       linkStyle |-> [j \in DOMAIN p.hrefs |->
                                         IF p.script = "main"
                                         THEN LinkStyleForMain(sb.linkStyle[j], j, a, w)
                                         ELSE LinkStyleFor(j, a, w)]],
              early |-> FALSE, currentSection |-> cur, activeIndex |-> a]

updateActiveNavLink ==
    LET r == updateActiveNavLinkResult(page, scrollY, Sidebar)
    IN  /\ linkActive' = r.sidebar.linkActive
        /\ linkStyle' = r.sidebar.linkStyle
        /\ navTransform' = r.sidebar.navTransform
        /\ last' = IF r.early THEN [op |-> "updateActiveNavLink", early |-> TRUE]
                   ELSE [op |-> "updateActiveNavLink", early |-> FALSE,
                         currentSection |-> r.currentSection,
                         activeIndex |-> r.activeIndex]
        /\ UNCHANGED <<page, scrollY, toggleVars, swVars, uiVars>>

\* The user scrolls the window.
ScrollTo(y) ==
    /\ y \in ScrollPositions(page)
    /\ y # scrollY
    /\ scrollY' = y
    /\ last' = [op |-> "scroll"]
    /\ UNCHANGED <<page, linkActive, linkStyle, navTransform, toggleVars, swVars, uiVars>>

NavInit ==
    /\ page \in Pages
    /\ scrollY = 0
    /\ linkActive = [j \in DOMAIN page.hrefs |-> FALSE]
    /\ linkStyle = [j \in DOMAIN page.hrefs |-> UnsetStyle]
    /\ navTransform = [set |-> FALSE, centredOn |-> -1]

\* The page the other machines run on: no sections, no sidebar.
NavIdle ==
    /\ page = MakePage(0, 0, "flow", "each", "noSidebar")
    /\ scrollY = 0
    /\ linkActive = [j \in DOMAIN page.hrefs |-> FALSE]
    /\ linkStyle = [j \in DOMAIN page.hrefs |-> UnsetStyle]
    /\ navTransform = [set |-> FALSE, centredOn |-> -1]

(***************************************************************************)
(* SERVICE WORKER                                                          *)
(***************************************************************************)
MaxFetches == 1     \* fetch events handled concurrently

FetchSlots == 1..MaxFetches
\* Message events are taken one at a time: the next one is delivered once the
\* promise chain of the previous one has run.
MsgSlots   == {1}

\* A cache name is its prefix followed by the rest, so that startsWith is
\* computed from the name.
CacheNameOf(prefix, rest) == [prefix |-> prefix, rest |-> rest]
CACHE_VERSION == "v1.0.0"
CACHE_NAME    == CacheNameOf("portfolio-", CACHE_VERSION)
OlderCaches   == {CacheNameOf("portfolio-", "v0.9.0"), CacheNameOf("portfolio-", "v0.8.0")}
ForeignCache  == CacheNameOf("widgets-", CACHE_VERSION)
\* CacheStorage keeps its caches in creation order; this worker's is the newest.
CacheOrder == <<CacheNameOf("portfolio-", "v0.8.0"), CacheNameOf("portfolio-", "v0.9.0"),
                ForeignCache, CACHE_NAME>>

SelfOrigin == "https://atantawy.com"       \* location.origin
CdnOrigin  == "https://cdn.example"
Url(origin, path) == [origin |-> origin, path |-> path]

STATIC_ASSETS == <<"/", "/index.html", "/blog.html", "/404.html",
                   "/dist/css/bundle.min.css", "/dist/css/blog-bundle.min.css",
                   "/dist/js/main.min.js", "/dist/sprite.svg">>
FONT_ASSETS == <<"/fonts/playfair-display/playfair-display-latin-500-normal.woff2",
                 "/fonts/playfair-display/playfair-display-latin-600-normal.woff2",
                 "/fonts/inter/inter-latin-400-normal.woff2",
                 "/fonts/inter/inter-latin-500-normal.woff2",
                 "/fonts/inter/inter-latin-600-normal.woff2">>
OfflinePath == "/404.html"

Range(s) == {s[i] : i \in DOMAIN s}

Response(path, status, type, body) ==
    [path |-> path, status |-> status, type |-> type, body |-> body]
NoResponse == Response("", 0, "none", "")

\* What cache.addAll stores for the precache list.
PrecacheEntries ==
    [u \in {Url(SelfOrigin, p) : p \in Range(STATIC_ASSETS \o FONT_ASSETS)} |->
        Response(u.path, 200, "basic", "fresh")]

\* What earlier versions and other scripts of the origin left behind.
LeftoverEntries(name) ==
    IF name = ForeignCache
    THEN [u \in {Url(SelfOrigin, "/privacy.html")} |->
            Response("/privacy.html", 200, "basic", "stale")]
    ELSE [u \in {Url(SelfOrigin, "/index.html"), Url(SelfOrigin, OfflinePath)} |->
            Response(u.path, 200, "basic", "stale")]

Request(url, method, mode) == [url |-> url, method |-> method, mode |-> mode]
NoRequest == Request(Url("", ""), "", "")

\* The requests pages make.
Requests ==
    {Request(Url(SelfOrigin, "/index.html"), "GET", "navigate"),
     Request(Url(SelfOrigin, "/privacy.html"), "GET", "navigate"),
     Request(Url(SelfOrigin, "/privacy.html"), "GET", "no-cors"),
     Request(Url(SelfOrigin, "/privacy.html"), "POST", "navigate"),
     Request(Url(CdnOrigin, "/index.html"), "GET", "no-cors")}

\* What the network answers to fetch(request).
NetResponses(req) ==
    {Response(req.url.path, 200, "basic", "fresh"),
     Response(req.url.path, 404, "basic", "fresh"),
     Response(req.url.path, 200, "cors", "fresh")}

\* ---- CacheStorage ---------------------------------------------------
CacheRemove(cs, name) == [n \in (DOMAIN cs) \ {name} |-> cs[n]]

\* caches.open(name): the cache is created when it does not exist.
CacheOpen(cs, name) ==
    IF name \in DOMAIN cs THEN cs
    ELSE [n \in (DOMAIN cs) \cup {name} |-> IF n = name THEN << >> ELSE cs[n]]

\* cache.put(request, response) on an open cache.
CachePut(cs, name, url, resp) ==
    [cs EXCEPT ![name] =
        [u \in (DOMAIN cs[name]) \cup {url} |-> IF u = url THEN resp ELSE cs[name][u]]]

\* caches.match(url): the first cache, in creation order, that holds it.
RECURSIVE MatchFrom(_, _, _)
MatchFrom(cs, url, i) ==
    IF i > Len(CacheOrder) THEN [found |-> FALSE, response |-> NoResponse]
    ELSE IF CacheOrder[i] \in DOMAIN cs /\ url \in DOMAIN cs[CacheOrder[i]]
         THEN [found |-> TRUE, response |-> cs[CacheOrder[i]][url]]
         ELSE MatchFrom(cs, url, i + 1)

CachesMatch(cs, url) == MatchFrom(cs, url, 1)

\* ---- install --------------------------------------------------------
\* The install event: the handler calls caches.open(CACHE_NAME).
InstallEvent ==
    /\ swState = "parsed"
    /\ swState' = "installOpening"
    /\ UNCHANGED <<skipWaitingFlag, caches, activation, oldClients, fetches, pendingPuts,
                   msgs, oldWrites, toggleVars, navVars, last, uiVars>>

\* caches.open resolves; cache.addAll([...STATIC_ASSETS, ...FONT_ASSETS]) starts.
InstallOpened ==
    /\ swState = "installOpening"
    /\ caches' = CacheOpen(caches, CACHE_NAME)
    /\ swState' = "installAdding"
    /\ UNCHANGED <<skipWaitingFlag, activation, oldClients, fetches, pendingPuts, msgs,
                   oldWrites, toggleVars, navVars, last, uiVars>>

\* addAll resolves: every asset is stored; "Install complete", self.skipWaiting().
InstallPrecached ==
    /\ swState = "installAdding"
    /\ caches' = [caches EXCEPT ![CACHE_NAME] = PrecacheEntries]
    /\ skipWaitingFlag' = TRUE
    /\ swState' = "installed"
    /\ UNCHANGED <<activation, oldClients, fetches, pendingPuts, msgs, oldWrites, toggleVars, navVars, last, uiVars>>

\* addAll rejects (an asset failed to load): nothing is stored, the .catch logs
\* the error and the promise given to waitUntil resolves all the same.
InstallFailed ==
    /\ swState = "installAdding"
    /\ swState' = "installed"
    /\ UNCHANGED <<skipWaitingFlag, caches, activation, oldClients, fetches, pendingPuts,
                   msgs, oldWrites, toggleVars, navVars, last, uiVars>>

\* The pages the previous version controlled are closed.
OldClientsClose ==
    /\ oldClients
    /\ oldClients' = FALSE
    /\ UNCHANGED <<swState, skipWaitingFlag, caches, activation, fetches, pendingPuts,
                   msgs, oldWrites, toggleVars, navVars, last, uiVars>>

\* ---- activate -------------------------------------------------------
\* Mutant: the filter keeps every cache of this site, old versions included.
IsOldCacheNever(cacheName) == FALSE

\* cacheName.startsWith('portfolio-') && cacheName !== CACHE_NAME
IsOldCache(cacheName) == cacheName.prefix = "portfolio-" /\ cacheName # CACHE_NAME

NoActivation == [pc |-> "none", seen |-> {}, pending |-> {}]

\* The activate event: a waiting worker activates once skipWaiting was called
\* or no page is controlled by the previous version; the handler calls caches.keys().
ActivateEvent ==
    /\ swState = "installed"
    /\ skipWaitingFlag \/ ~oldClients
    /\ swState' = "activating"
    /\ activation' = [pc |-> "keys", seen |-> {}, pending |-> {}]
    /\ UNCHANGED <<skipWaitingFlag, caches, oldClients, fetches, pendingPuts, msgs,
                   oldWrites, toggleVars, navVars, last, uiVars>>

\* caches.keys() resolves: caches.delete is called for every filtered name.
ActivateKeys ==
    /\ swState = "activating" /\ activation.pc = "keys"
    /\ activation' = [pc |-> "deleting", seen |-> DOMAIN caches,
                      pending |-> {n \in DOMAIN caches : IsOldCache(n)}]
    /\ UNCHANGED <<swState, skipWaitingFlag, caches, oldClients, fetches, pendingPuts,
                   msgs, oldWrites, toggleVars, navVars, last, uiVars>>

\* One of the caches.delete(cacheName) calls takes effect.
ActivateDelete(name) ==
    /\ swState = "activating" /\ activation.pc = "deleting"
    /\ name \in activation.pending
    /\ caches' = CacheRemove(caches, name)
    /\ activation' = [activation EXCEPT !.pending = @ \ {name}]
    /\ UNCHANGED <<swState, skipWaitingFlag, oldClients, fetches, pendingPuts, msgs,
                   oldWrites, toggleVars, navVars, last, uiVars>>

\* Promise.all resolves: "Activation complete", clients.claim().
ActivateDone ==
    /\ swState = "activating" /\ activation.pc = "deleting"
    /\ activation.pending = {}
    /\ swState' = "activated"
    /\ activation' = [activation EXCEPT !.pc = "done"]
    /\ oldClients' = FALSE
    /\ UNCHANGED <<skipWaitingFlag, caches, fetches, pendingPuts, msgs, oldWrites, toggleVars, navVars, last, uiVars>>

\* ---- fetch ----------------------------------------------------------
\* What fetch(request) rejects with when the network cannot be reached.
NetworkError == "TypeError: Failed to fetch"
NoError      == ""

IdleFetch ==
    [pc |-> "idle", req |-> NoRequest, respondWith |-> FALSE, looked |-> FALSE,
     fetched |-> FALSE, via |-> "none", settled |-> "none", response |-> NoResponse,
     error |-> NoError]

\* Handler h finishes as record f. The record of a finished handler stays in
\* its slot for inspection until another handler finishes.
Finish(fs, h, f) ==
    [k \in DOMAIN fs |->
        IF k = h THEN f ELSE IF fs[k].pc = "done" THEN IdleFetch ELSE fs[k]]

\* Handler h goes on as record f.
Continue(fs, h, f) == [fs EXCEPT ![h] = f]

Proceed(fs, h, f) == IF f.pc = "done" THEN Finish(fs, h, f) ELSE Continue(fs, h, f)

\* Mutant: only the method is tested; cross-origin GETs are handled too.
ShouldSkipMethodOnly(req) == req.method # "GET"

\* "Skip non-GET requests" / "Skip cross-origin requests"
ShouldSkip(req) == req.method # "GET" \/ req.url.origin # SelfOrigin

\* The fetch event: the synchronous part of the listener. A request that is
\* not skipped is answered through event.respondWith(caches.match(request)...).
FetchEvent(h, req) ==
    /\ swState = "activated"
    /\ fetches[h].pc \in {"idle", "done"}
    /\ fetches' = Proceed(fetches, h,
            IF ShouldSkip(req)
            THEN [IdleFetch EXCEPT !.pc = "done", !.req = req]
            ELSE [IdleFetch EXCEPT !.pc = "matching", !.req = req,
                                   !.respondWith = TRUE, !.looked = TRUE])
    /\ UNCHANGED <<swState, skipWaitingFlag, caches, activation, oldClients, pendingPuts,
                   msgs, oldWrites, toggleVars, navVars, last, uiVars>>

\* Mutant: a cached response is served and refreshed from the network.
AfterMatchRevalidate(f, m) ==
    IF m.found
    THEN [f EXCEPT !.pc = "fetching", !.fetched = TRUE, !.via = "cache",
                   !.settled = "response", !.response = m.response]
    ELSE [f EXCEPT !.pc = "fetching", !.fetched = TRUE]

\* .then((cachedResponse) => { if (cachedResponse) return cachedResponse;
\*                             return fetch(request)... })
AfterMatch(f, m) ==
    IF m.found
    THEN [f EXCEPT !.pc = "done", !.via = "cache", !.settled = "response",
                   !.response = m.response]
    ELSE [f EXCEPT !.pc = "fetching", !.fetched = TRUE]

\* caches.match(request) resolves.
CacheMatchResolves(h) ==
    /\ fetches[h].pc = "matching"
    /\ fetches' = Proceed(fetches, h,
                      AfterMatch(fetches[h], CachesMatch(caches, fetches[h].req.url)))
    /\ UNCHANGED <<swState, skipWaitingFlag, caches, activation, oldClients, pendingPuts,
                   msgs, oldWrites, toggleVars, navVars, last, uiVars>>

\* Mutant: every response the network gives is stored.
IsCacheableAlways(response) == TRUE

\* !(!response || response.status !== 200 || response.type !== 'basic')
IsCacheable(response) ==
    response # NoResponse /\ response.status = 200 /\ response.type = "basic"

\* fetch(request) resolves with r: r is returned to the page; a clone of a valid
\* response is handed to caches.open(CACHE_NAME).then(cache => cache.put(...)).
NetworkResponds(h, r) ==
    /\ fetches[h].pc = "fetching"
    /\ r \in NetResponses(fetches[h].req)
    /\ fetches' = Finish(fetches, h,
                      [fetches[h] EXCEPT !.pc = "done", !.via = "network",
                                         !.settled = "response", !.response = r])
    /\ pendingPuts' = IF IsCacheable(r)
                      THEN pendingPuts \cup {[url |-> fetches[h].req.url, response |-> r]}
                      ELSE pendingPuts
    /\ UNCHANGED <<swState, skipWaitingFlag, caches, activation, oldClients, msgs,
                   oldWrites, toggleVars, navVars, last, uiVars>>

\* Mutant: the offline page is looked up in the active cache under its own name.
OfflineLookupIndex(cs) == CachesMatch(cs, Url(SelfOrigin, "/index.html"))

\* caches.match('/404.html')
OfflineLookup(cs) == CachesMatch(cs, Url(SelfOrigin, OfflinePath))

\* Mutant: every failed fetch falls back to the offline page.
CatchFetchErrorFallback(f, error) == [f EXCEPT !.pc = "offline"]

\* .catch((error) => { if (request.mode === 'navigate') return caches.match('/404.html');
\*                     throw error; })
CatchFetchError(f, error) ==
    IF f.req.mode = "navigate"
    THEN [f EXCEPT !.pc = "offline"]
    ELSE [f EXCEPT !.pc = "done", !.via = "network", !.settled = "rejected",
                   !.error = error]

\* fetch(request) rejects: the .catch asks the caches for the offline page when
\* the request is a navigation, and rethrows otherwise.
NetworkFails(h) ==
    /\ fetches[h].pc = "fetching"
    /\ fetches' = Proceed(fetches, h, CatchFetchError(fetches[h], NetworkError))
    /\ UNCHANGED <<swState, skipWaitingFlag, caches, activation, oldClients, pendingPuts,
                   msgs, oldWrites, toggleVars, navVars, last, uiVars>>

\* caches.match('/404.html') resolves; respondWith settles with its value,
\* which is undefined when no cache holds the page.
OfflineMatchResolves(h) ==
    /\ fetches[h].pc = "offline"
    /\ LET m == OfflineLookup(caches)
       IN  fetches' = Finish(fetches, h,
                [fetches[h] EXCEPT !.pc = "done", !.via = "offline",
                          !.settled = IF m.found THEN "response" ELSE "undefined",
                          !.response = m.response])
    /\ UNCHANGED <<swState, skipWaitingFlag, caches, activation, oldClients, pendingPuts,
                   msgs, oldWrites, toggleVars, navVars, last, uiVars>>

\* caches.open(CACHE_NAME).then(cache => { if (same origin) cache.put(request, copy) })
CacheWriteResult(cs, w) ==
    IF w.url.origin = SelfOrigin
    THEN CachePut(CacheOpen(cs, CACHE_NAME), CACHE_NAME, w.url, w.response)
    ELSE CacheOpen(cs, CACHE_NAME)

\* A pending cache write of a fetch handler completes.
CacheWrite(w) ==
    /\ w \in pendingPuts
    /\ caches' = CacheWriteResult(caches, w)
    /\ pendingPuts' = pendingPuts \ {w}
    /\ UNCHANGED <<swState, skipWaitingFlag, activation, oldClients, fetches, msgs,
                   oldWrites, toggleVars, navVars, last, uiVars>>

\* ---- fetch handlers of the previous version --------------------------
\* The version that controls the open pages while this one installs: the same
\* script with its own CACHE_VERSION.
PREVIOUS_CACHE_NAME == CacheNameOf("portfolio-", "v0.9.0")

\* caches.open(CACHE_NAME).then(cache => cache.put(request, copy)) as the
\* previous version runs it: caches.open creates the cache when it is gone.
PreviousCacheWriteResult(cs, w) ==
    IF w.url.origin = SelfOrigin
    THEN CachePut(CacheOpen(cs, PREVIOUS_CACHE_NAME), PREVIOUS_CACHE_NAME, w.url, w.response)
    ELSE CacheOpen(cs, PREVIOUS_CACHE_NAME)

\* The cache writes a fetch handler of the previous version may have started.
PreviousWrites ==
    {[url |-> Url(SelfOrigin, "/privacy.html"),
      response |-> Response("/privacy.html", 200, "basic", "fresh")]}

\* A pending cache write of a fetch handler of the previous version completes.
PreviousCacheWrite(w) ==
    /\ w \in oldWrites
    /\ caches' = PreviousCacheWriteResult(caches, w)
    /\ oldWrites' = oldWrites \ {w}
    /\ UNCHANGED <<swState, skipWaitingFlag, activation, oldClients, fetches, pendingPuts,
                   msgs, toggleVars, navVars, last, uiVars>>

\* ---- message --------------------------------------------------------
IdleMsg == [pc |-> "idle", type |-> "", port |-> FALSE, deleted |-> FALSE, acked |-> FALSE]

\* The messages pages post: event.data.type, and whether a reply port came along.
Messages ==
    {[type |-> "SKIP_WAITING", port |-> FALSE], [type |-> "PING", port |-> FALSE],
     [type |-> "CLEAR_CACHE", port |-> TRUE], [type |-> "CLEAR_CACHE", port |-> FALSE]}

\* The message event: the synchronous part of the listener.
MessageEvent(m, type, port) ==
    /\ swState \in {"installed", "activating", "activated"}
    /\ msgs[m].pc \in {"idle", "done"}
    /\ msgs' = [msgs EXCEPT ![m] =
            [IdleMsg EXCEPT !.type = type, !.port = port,
                            !.pc = IF type = "CLEAR_CACHE" THEN "deleting" ELSE "done"]]
    /\ skipWaitingFlag' = (skipWaitingFlag \/ type = "SKIP_WAITING")
    /\ UNCHANGED <<swState, caches, activation, oldClients, fetches, pendingPuts,
                   oldWrites, toggleVars, navVars, last, uiVars>>

\* caches.delete(CACHE_NAME)
ClearTargets(cs) == {CACHE_NAME}

\* caches.delete(CACHE_NAME) takes effect and its promise resolves.
ClearDeleted(m) ==
    /\ msgs[m].pc = "deleting"
    /\ caches' = [n \in (DOMAIN caches) \ ClearTargets(caches) |-> caches[n]]
    /\ msgs' = [msgs EXCEPT ![m] = [@ EXCEPT !.pc = "deleted", !.deleted = TRUE]]
    /\ UNCHANGED <<swState, skipWaitingFlag, activation, oldClients, fetches, pendingPuts,
                   oldWrites, toggleVars, navVars, last, uiVars>>

\* Mutant: the acknowledgement does not wait for the deletion.
AckReadyEarly(m) == msgs[m].pc \in {"deleting", "deleted"}

\* .then(() => { ... postMessage ... }): the callback runs once delete resolved.
AckReady(m) == msgs[m].pc = "deleted"

\* event.ports[0].postMessage({ success: true }); without a port the callback throws.
ClearAcked(m) ==
    /\ AckReady(m)
    /\ msgs' = [msgs EXCEPT ![m] = [@ EXCEPT !.pc = "done", !.acked = msgs[m].port]]
    /\ UNCHANGED <<swState, skipWaitingFlag, caches, activation, oldClients, fetches,
                   pendingPuts, oldWrites, toggleVars, navVars, last, uiVars>>

SWInit ==
    /\ swState = "parsed"
    /\ skipWaitingFlag = FALSE
    /\ \E left \in SUBSET (OlderCaches \cup {ForeignCache}) :
            caches = [n \in left |-> LeftoverEntries(n)]
    /\ activation = NoActivation
    /\ oldClients \in BOOLEAN
    /\ fetches = [h \in FetchSlots |-> IdleFetch]
    /\ pendingPuts = {}
    /\ msgs = [m \in MsgSlots |-> IdleMsg]
    /\ oldWrites = {}

\* This version is installed over a previous one that controls the open pages:
\* the previous version's cache exists, and its fetch handlers may have a
\* cache write pending.
SWUpdateInit ==
    /\ swState = "parsed"
    /\ skipWaitingFlag = FALSE
    /\ \E left \in SUBSET (OlderCaches \cup {ForeignCache}) :
            /\ PREVIOUS_CACHE_NAME \in left
            /\ caches = [n \in left |-> LeftoverEntries(n)]
    /\ activation = NoActivation
    /\ oldClients = TRUE
    /\ fetches = [h \in FetchSlots |-> IdleFetch]
    /\ pendingPuts = {}
    /\ msgs = [m \in MsgSlots |-> IdleMsg]
    /\ oldWrites \in SUBSET PreviousWrites

\* No worker is registered.
SWIdle ==
    /\ swState = "none"
    /\ skipWaitingFlag = FALSE
    /\ caches = << >>
    /\ activation = NoActivation
    /\ oldClients = FALSE
    /\ fetches = [h \in FetchSlots |-> IdleFetch]
    /\ pendingPuts = {}
    /\ msgs = [m \in MsgSlots |-> IdleMsg]
    /\ oldWrites = {}

(***************************************************************************)
(* CLICK DELEGATION / E-MAIL LINKS                                         *)
(***************************************************************************)
\* Strings the scripts take apart or put together are sequences of characters.
\* A data-* attribute is absent (dataset gives undefined) or has a value.
Attr(v) == [present |-> TRUE, value |-> v]
NoAttr  == [present |-> FALSE, value |-> << >>]

\* !value of JavaScript, for dataset values: undefined and '' are falsy.
IsFalsy(attr) == ~attr.present \/ attr.value = << >>

NoEmail == [ok |-> FALSE, address |-> << >>]

\* constructEmail(element): `${user}@${domain}`, or null.
constructEmail(user, domain) ==
    IF IsFalsy(user) \/ IsFalsy(domain) THEN NoEmail
    ELSE [ok |-> TRUE, address |-> user.value \o <<"@">> \o domain.value]

\* The characters encodeURIComponent leaves as they are.
UnreservedChars ==
    {"a", "b", "c", "d", "e", "f", "g", "h", "i", "j", "k", "l", "m", "n", "o", "p", "q",
     "r", "s", "t", "u", "v", "w", "x", "y", "z", "0", "1", "2", "3", "4", "5", "6", "7",
     "8", "9", "-", "_", ".", "!", "~", "*", "'", "(", ")"}

\* The UTF-8 percent escapes of the other characters an address is made of.
PercentEscape ==
    [c \in {"@", "+", " ", "%", "/", "?", "&", "="} |->
        CASE c = "@" -> <<"%", "4", "0">>
          [] c = "+" -> <<"%", "2", "B">>
          [] c = " " -> <<"%", "2", "0">>
          [] c = "%" -> <<"%", "2", "5">>
          [] c = "/" -> <<"%", "2", "F">>
          [] c = "?" -> <<"%", "3", "F">>
          [] c = "&" -> <<"%", "2", "6">>
          [] c = "=" -> <<"%", "3", "D">>]

\* Mutant: the address is put into the URL as it is.
encodeURIComponentRaw(str) == str

RECURSIVE encodeURIComponent(_)
encodeURIComponent(str) ==
    IF str = << >> THEN << >>
    ELSE (IF Head(str) \in UnreservedChars THEN <<Head(str)>> ELSE PercentEscape[Head(str)])
         \o encodeURIComponent(Tail(str))

\* `mailto:${encodeURIComponent(email)}`
MailtoHref(email) == <<"m", "a", "i", "l", "t", "o", ":">> \o encodeURIComponent(email)

\* A click, as the listener sees it: the nearest ancestors of e.target that
\* carry data-toggle, data-action and data-user + data-domain, if any.
NoTargets ==
    [toggle |-> NoAttr, toggleEl |-> 0, action |-> NoAttr,
     emailTag |-> "none", user |-> NoAttr, domain |-> NoAttr]

UserA    == <<"a">>
UserPlus == <<"j", "+", "x">>
DomainB  == <<"b", ".", "c", "o", "m">>

WithToggle(ev, type, el) == [ev EXCEPT !.toggle = Attr(type), !.toggleEl = el]
WithAction(ev, action)   == [ev EXCEPT !.action = Attr(action)]
WithEmail(ev, tag, u, d) == [ev EXCEPT !.emailTag = tag, !.user = Attr(u), !.domain = Attr(d)]

\* The clicks users make on the pages.
ClickEvents ==
    {WithToggle(NoTargets, "cert", b) : b \in Badges}
    \cup {WithToggle(NoTargets, "project", c) : c \in Cards}
    \cup {WithToggle(NoTargets, "gallery", 1),
          WithAction(NoTargets, "scroll-top"),
          WithAction(NoTargets, "print"),
          WithEmail(NoTargets, "A", UserA, DomainB),
          WithEmail(NoTargets, "A", UserPlus, DomainB),
          WithEmail(NoTargets, "A", << >>, DomainB),
          WithEmail(NoTargets, "A", UserA, << >>),
          WithEmail(NoTargets, "SPAN", UserA, DomainB),
          NoTargets,
          WithEmail(WithAction(WithToggle(NoTargets, "cert", 1), "scroll-top"),
                    "A", UserA, DomainB),
          WithEmail(WithAction(WithToggle(NoTargets, "gallery", 1), "scroll-top"),
                    "A", UserA, DomainB),
          WithEmail(WithAction(NoTargets, "scroll-top"), "A", UserA, DomainB),
          WithEmail(WithAction(NoTargets, "print"), "A", UserA, DomainB)}

\* handleEmailClick(e, emailTarget): what it does, in order.
handleEmailClick(ev) ==
    LET email == constructEmail(ev.user, ev.domain)
    IN  IF email.ok
        THEN [steps |-> <<"preventDefault", "constructEmail", "navigate">>,
              navigate |-> MailtoHref(email.address)]
        ELSE [steps |-> <<"preventDefault", "constructEmail", "error">>, navigate |-> << >>]

\* Mutant: the e-mail branch is tried first.
RouteClickEmailFirst(ev) ==
    IF ev.emailTag = "A" THEN handleEmailClick(ev)
    ELSE IF ev.toggle.present
    THEN [steps |-> <<"preventDefault">>
                    \o (CASE ev.toggle.value = "cert" -> <<"toggleCert">>
                          [] ev.toggle.value = "project" -> <<"toggleProject">>
                          [] OTHER -> <<"warn">>),
          navigate |-> << >>]
    ELSE IF ev.action.present
    THEN [steps |-> <<"preventDefault">>
                    \o (IF ev.action.value = "scroll-top" THEN <<"scrollToTop">> ELSE <<"warn">>),
          navigate |-> << >>]
    ELSE [steps |-> << >>, navigate |-> << >>]

\* Mutant: an unknown data-toggle or data-action value lets the click fall
\* through to the next branch.
RouteClickFallThrough(ev) ==
    IF ev.toggle.present /\ ev.toggle.value \in {"cert", "project"}
    THEN [steps |-> <<"preventDefault">>
                    \o (IF ev.toggle.value = "cert" THEN <<"toggleCert">> ELSE <<"toggleProject">>),
          navigate |-> << >>]
    ELSE IF ev.action.present /\ ev.action.value = "scroll-top"
    THEN [steps |-> <<"preventDefault", "scrollToTop">>, navigate |-> << >>]
    ELSE IF ev.emailTag = "A" THEN handleEmailClick(ev)
    ELSE [steps |-> << >>, navigate |-> << >>]

\* The click listener: which calls it makes, in order, for a click.
RouteClick(ev) ==
    IF ev.toggle.present
    THEN [steps |-> <<"preventDefault">>
                    \o (CASE ev.toggle.value = "cert" -> <<"toggleCert">>
                          [] ev.toggle.value = "project" -> <<"toggleProject">>
                          [] OTHER -> <<"warn">>),
          navigate |-> << >>]
    ELSE IF ev.action.present
    THEN [steps |-> <<"preventDefault">>
                    \o (IF ev.action.value = "scroll-top" THEN <<"scrollToTop">> ELSE <<"warn">>),
          navigate |-> << >>]
    ELSE IF ev.emailTag = "A" THEN handleEmailClick(ev)
    ELSE [steps |-> << >>, navigate |-> << >>]

Calls(r, step) == \E i \in 1..Len(r.steps) : r.steps[i] = step

\* A click reaches the document's listener.
ClickEvent(ev) ==
    LET r == RouteClick(ev)
    IN  /\ \E outs \in (IF Calls(r, "toggleCert") THEN [certExpanded -> CollapseOutcomes]
                          ELSE {[b \in certExpanded |-> "ok"]}) :
              LET t == IF Calls(r, "toggleCert")
                       THEN toggleCertResult(ToggleState, ev.toggleEl, outs)
                       ELSE ToggleState
                  wasExpanded == ev.toggleEl \in projExpanded
              IN  /\ certExpanded' = t.exp
                  /\ certHeight' = t.height
                  /\ projExpanded' = IF Calls(r, "toggleProject")
                                     THEN toggleProjectResult(projExpanded, ev.toggleEl)
                                     ELSE projExpanded
                  /\ timers' = IF Calls(r, "toggleProject") /\ ~wasExpanded
                               THEN Append(t.tm, ScrollTimer("project", ev.toggleEl))
                               ELSE t.tm
                  /\ Len(timers') <= MaxTimers
        /\ scrollY' = IF Calls(r, "scrollToTop") THEN 0 ELSE scrollY
        /\ last' = [op |-> "click", ev |-> ev, steps |-> r.steps, navigate |-> r.navigate]
        /\ UNCHANGED <<page, linkActive, linkStyle, navTransform, swVars, uiVars>>

(***************************************************************************)
(* QUOTE OF THE DAY                                                        *)
(***************************************************************************)
RandomResolution == 120   \* Math.random() gives r / RandomResolution, 0 <= r < RandomResolution

\* "Security Leadership Quotes", character by character ("U+2014" is the em dash).
quotes ==
    <<<<"S", "e", "c", "u", "r", "i", "t", "y", " ", "i", "s", " ", "n", "o", "t", " ", "a",
        " ", "p", "r", "o", "d", "u", "c", "t", ",", " ", "b", "u", "t", " ", "a", " ", "p",
        "r", "o", "c", "e", "s", "s", ".", " ", "I", "t", " ", "r", "e", "q", "u", "i", "r",
        "e", "s", " ", "c", "o", "n", "t", "i", "n", "u", "o", "u", "s", " ", "a", "d", "a",
        "p", "t", "a", "t", "i", "o", "n", " ", "a", "n", "d", " ", "s", "t", "r", "a", "t",
        "e", "g", "i", "c", " ", "t", "h", "i", "n", "k", "i", "n", "g", ".", " ", "-", " ",
        "B", "r", "u", "c", "e", " ", "S", "c", "h", "n", "e", "i", "e", "r">>,
      <<"T", "h", "e", " ", "i", "n", "t", "e", "r", "s", "e", "c", "t", "i", "o", "n", " ",
        "o", "f", " ", "s", "e", "c", "u", "r", "i", "t", "y", " ", "a", "n", "d", " ", "b",
        "u", "s", "i", "n", "e", "s", "s", " ", "s", "t", "r", "a", "t", "e", "g", "y", " ",
        "i", "s", " ", "w", "h", "e", "r", "e", " ", "t", "r", "u", "e", " ", "o", "r", "g",
        "a", "n", "i", "z", "a", "t", "i", "o", "n", "a", "l", " ", "r", "e", "s", "i", "l",
        "i", "e", "n", "c", "e", " ", "i", "s", " ", "b", "u", "i", "l", "t", ".", " ", "-",
        " ", "A", "n", "o", "n", "y", "m", "o", "u", "s">>,
      <<"E", "f", "f", "e", "c", "t", "i", "v", "e", " ", "s", "e", "c", "u", "r", "i", "t",
        "y", " ", "l", "e", "a", "d", "e", "r", "s", "h", "i", "p", " ", "m", "e", "a", "n",
        "s", " ", "t", "r", "a", "n", "s", "l", "a", "t", "i", "n", "g", " ", "t", "e", "c",
        "h", "n", "i", "c", "a", "l", " ", "r", "i", "s", "k", " ", "i", "n", "t", "o", " ",
        "b", "u", "s", "i", "n", "e", "s", "s", " ", "l", "a", "n", "g", "u", "a", "g", "e",
        ".", " ", "-", " ", "A", "n", "o", "n", "y", "m", "o", "u", "s">>,
      <<"I", "n", " ", "c", "y", "b", "e", "r", "s", "e", "c", "u", "r", "i", "t", "y", ",",
        " ", "p", "r", "o", "a", "c", "t", "i", "v", "e", " ", "g", "o", "v", "e", "r", "n",
        "a", "n", "c", "e", " ", "a", "n", "d", " ", "r", "i", "s", "k", " ", "m", "a", "n",
        "a", "g", "e", "m", "e", "n", "t", " ", "a", "r", "e", " ", "t", "h", "e", " ", "f",
        "o", "u", "n", "d", "a", "t", "i", "o", "n", "s", " ", "o", "f", " ", "t", "r", "u",
        "s", "t", ".", " ", "-", " ", "A", "n", "o", "n", "y", "m", "o", "u", "s">>,
      <<"S", "e", "c", "u", "r", "i", "t", "y", " ", "a", "r", "c", "h", "i", "t", "e", "c",
        "t", "u", "r", "e", " ", "m", "u", "s", "t", " ", "e", "n", "a", "b", "l", "e", " ",
        "b", "u", "s", "i", "n", "e", "s", "s", " ", "a", "g", "i", "l", "i", "t", "y", " ",
        "w", "h", "i", "l", "e", " ", "m", "a", "i", "n", "t", "a", "i", "n", "i", "n", "g",
        " ", "r", "o", "b", "u", "s", "t", " ", "c", "o", "n", "t", "r", "o", "l", "s", ".",
        " ", "-", " ", "A", "n", "o", "n", "y", "m", "o", "u", "s">>,
      <<"T", "h", "e", " ", "b", "e", "s", "t", " ", "s", "e", "c", "u", "r", "i", "t", "y",
        " ", "p", "r", "o", "g", "r", "a", "m", "s", " ", "a", "l", "i", "g", "n", " ", "t",
        "e", "c", "h", "n", "i", "c", "a", "l", " ", "e", "x", "c", "e", "l", "l", "e", "n",
        "c", "e", " ", "w", "i", "t", "h", " ", "o", "r", "g", "a", "n", "i", "z", "a", "t",
        "i", "o", "n", "a", "l", " ", "o", "b", "j", "e", "c", "t", "i", "v", "e", "s", ".",
        " ", "-", " ", "A", "n", "o", "n", "y", "m", "o", "u", "s">>,
      <<"D", "e", "f", "e", "n", "s", "e", " ", "i", "n", " ", "d", "e", "p", "t", "h", " ",
        "i", "s", " ", "n", "o", "t", " ", "p", "a", "r", "a", "n", "o", "i", "a", "U+2014",
        "i", "t", "'", "s", " ", "s", "t", "r", "a", "t", "e", "g", "i", "c", " ", "r", "i",
        "s", "k", " ", "m", "a", "n", "a", "g", "e", "m", "e", "n", "t", " ", "a", "t", " ",
        "e", "v", "e", "r", "y", " ", "l", "a", "y", "e", "r", ".", " ", "-", " ", "A", "n",
        "o", "n", "y", "m", "o", "u", "s">>,
      <<"T", "r", "u", "s", "t", " ", "i", "s", " ", "e", "a", "r", "n", "e", "d", " ", "t",
        "h", "r", "o", "u", "g", "h", " ", "t", "r", "a", "n", "s", "p", "a", "r", "e", "n",
        "c", "y", ",", " ", "c", "o", "m", "p", "e", "t", "e", "n", "c", "e", ",", " ", "a",
        "n", "d", " ", "c", "o", "n", "s", "i", "s", "t", "e", "n", "t", " ", "d", "e", "l",
        "i", "v", "e", "r", "y", " ", "o", "f", " ", "s", "e", "c", "u", "r", "e", " ", "s",
        "o", "l", "u", "t", "i", "o", "n", "s", ".", " ", "-", " ", "A", "n", "o", "n", "y",
        "m", "o", "u", "s">>,
      <<"C", "o", "m", "p", "a", "n", "i", "e", "s", " ", "s", "p", "e", "n", "d", " ", "m",
        "i", "l", "l", "i", "o", "n", "s", " ", "o", "f", " ", "d", "o", "l", "l", "a", "r",
        "s", " ", "o", "n", " ", "f", "i", "r", "e", "w", "a", "l", "l", "s", " ", "a", "n",
        "d", " ", "e", "n", "c", "r", "y", "p", "t", "i", "o", "n", ",", " ", "b", "u", "t",
        " ", "i", "t", "'", "s", " ", "m", "o", "n", "e", "y", " ", "w", "a", "s", "t", "e",
        "d", " ", "b", "e", "c", "a", "u", "s", "e", " ", "n", "o", "n", "e", " ", "o", "f",
        " ", "t", "h", "e", "s", "e", " ", "m", "e", "a", "s", "u", "r", "e", "s", " ", "a",
        "d", "d", "r", "e", "s", "s", " ", "t", "h", "e", " ", "w", "e", "a", "k", "e", "s",
        "t", " ", "l", "i", "n", "k", " ", "i", "n", " ", "t", "h", "e", " ", "s", "e", "c",
        "u", "r", "i", "t", "y", " ", "c", "h", "a", "i", "n", ":", " ", "t", "h", "e", " ",
        "p", "e", "o", "p", "l", "e", ".", " ", "-", " ", "K", "e", "v", "i", "n", " ", "M",
        "i", "t", "n", "i", "c", "k">>,
      <<"I", "f", " ", "y", "o", "u", " ", "t", "h", "i", "n", "k", " ", "t", "e", "c", "h",
        "n", "o", "l", "o", "g", "y", " ", "c", "a", "n", " ", "s", "o", "l", "v", "e", " ",
        "y", "o", "u", "r", " ", "s", "e", "c", "u", "r", "i", "t", "y", " ", "p", "r", "o",
        "b", "l", "e", "m", "s", ",", " ", "t", "h", "e", "n", " ", "y", "o", "u", " ", "d",
        "o", "n", "'", "t", " ", "u", "n", "d", "e", "r", "s", "t", "a", "n", "d", " ", "t",
        "h", "e", " ", "p", "r", "o", "b", "l", "e", "m", "s", " ", "a", "n", "d", " ", "y",
        "o", "u", " ", "d", "o", "n", "'", "t", " ", "u", "n", "d", "e", "r", "s", "t", "a",
        "n", "d", " ", "t", "h", "e", " ", "t", "e", "c", "h", "n", "o", "l", "o", "g", "y",
        ".", " ", "-", " ", "B", "r", "u", "c", "e", " ", "S", "c", "h", "n", "e", "i", "e",
        "r">>,
      <<"M", "o", "v", "i", "n", "g", " ", "f", "r", "o", "m", " ", "r", "e", "a", "c", "t",
        "i", "v", "e", " ", "d", "e", "f", "e", "n", "s", "e", " ", "t", "o", " ", "p", "r",
        "o", "a", "c", "t", "i", "v", "e", " ", "r", "e", "s", "i", "l", "i", "e", "n", "c",
        "e", " ", "i", "s", " ", "a", " ", "r", "e", "a", "l", " ", "o", "p", "p", "o", "r",
        "t", "u", "n", "i", "t", "y", " ", "f", "o", "r", " ", "l", "e", "a", "d", "e", "r",
        "s", " ", "t", "o", " ", "d", "r", "i", "v", "e", " ", "s", "t", "r", "a", "t", "e",
        "g", "i", "c", " ", "b", "u", "s", "i", "n", "e", "s", "s", " ", "g", "r", "o", "w",
        "t", "h", ".", " ", "-", " ", "N", "i", "c", "k", " ", "G", "o", "d", "f", "r", "e",
        "y">>,
      <<"T", "h", "e", " ", "r", "o", "l", "e", " ", "o", "f", " ", "t", "h", "e", " ", "C",
        "I", "S", "O", " ", "i", "s", " ", "e", "x", "p", "a", "n", "d", "i", "n", "g", ",",
        " ", "a", "b", "s", "o", "r", "b", "i", "n", "g", " ", "r", "e", "s", "p", "o", "n",
        "s", "i", "b", "i", "l", "i", "t", "i", "e", "s", " ", "t", "h", "a", "t", " ", "g",
        "o", " ", "b", "e", "y", "o", "n", "d", " ", "t", "r", "a", "d", "i", "t", "i", "o",
        "n", "a", "l", " ", "I", "T", " ", "s", "e", "c", "u", "r", "i", "t", "y", ".", " ",
        "-", " ", "J", "o", "h", "n", " ", "F", "u", "r", "r", "i", "e", "r">>>>

Separator == <<" ", "-", " ">>
Anonymous == <<"A", "n", "o", "n", "y", "m", "o", "u", "s">>
Whitespace == {" ", "\t", "\n"}

\* str.indexOf(sep, from), 1-based; 0 when sep does not occur.
IndexOf(str, sep, from) ==
    LET hits == {i \in from..(Len(str) - Len(sep) + 1) :
                    SubSeq(str, i, i + Len(sep) - 1) = sep}
    IN  IF hits = {} THEN 0 ELSE CHOOSE i \in hits : \A k \in hits : i <= k

\* str.split(sep), from position `from` on: the parts between the occurrences
\* of sep, found from left to right.
RECURSIVE SplitFrom(_, _, _)
SplitFrom(str, sep, from) ==
    LET at == IndexOf(str, sep, from)
    IN  IF at = 0 THEN <<SubSeq(str, from, Len(str))>>
        ELSE <<SubSeq(str, from, at - 1)>> \o SplitFrom(str, sep, at + Len(sep))

Split(str, sep) == SplitFrom(str, sep, 1)

RECURSIVE TrimStart(_)
TrimStart(str) ==
    IF str # << >> /\ Head(str) \in Whitespace THEN TrimStart(Tail(str)) ELSE str

RECURSIVE TrimEnd(_)
TrimEnd(str) ==
    IF str # << >> /\ str[Len(str)] \in Whitespace
    THEN TrimEnd(SubSeq(str, 1, Len(str) - 1)) ELSE str

\* str.trim()
Trim(str) == TrimEnd(TrimStart(str))

\* Mutant: the string is not split; it is the text, by Anonymous.
parseQuoteWhole(quoteString) == [text |-> quoteString, author |-> Anonymous]

\* parseQuote(quoteString)
parseQuote(quoteString) ==
    IF quoteString = << >> THEN [text |-> << >>, author |-> Anonymous]
    ELSE LET parts == Split(quoteString, Separator)
         IN  [text |-> Trim(parts[1]),
              author |-> IF Len(parts) > 1 THEN Trim(parts[2]) ELSE Anonymous]

\* Math.floor(Math.random() * quotes.length), for Math.random() = r / RandomResolution
RandomIndex(r) == (r * Len(quotes)) \div RandomResolution

\* getRandomQuote()
getRandomQuote(r) == quotes[RandomIndex(r) + 1]

\* initializeQuote(); r is what Math.random() gives when it is asked.
\* Mutant: the test for the two elements is missing; writing to the absent
\* element throws, and the catch block of initializeQuote logs the error.
initializeQuoteResultUnguarded(els, text, author, r) ==
    LET parsed == parseQuote(getRandomQuote(r))
    IN  [text    |-> IF "quote" \in els THEN <<"\"">> \o parsed.text \o <<"\"">> ELSE text,
         author  |-> IF els = {"quote", "quote-author"}
                     THEN <<"U+2014", " ">> \o parsed.author ELSE author,
         skipped |-> els # {"quote", "quote-author"}]

\* initializeQuote() on a page with the elements els, as a function of the
\* two elements' textContent before it.
initializeQuoteResult(els, text, author, r) ==
    IF els # {"quote", "quote-author"}
    THEN [text |-> text, author |-> author, skipped |-> TRUE]
    ELSE LET parsed == parseQuote(getRandomQuote(r))
         IN  IF parsed.text # << >>
             THEN [text |-> <<"\"">> \o parsed.text \o <<"\"">>,
                   author |-> <<"U+2014", " ">> \o parsed.author, skipped |-> FALSE]
             ELSE [text |-> text, author |-> author, skipped |-> FALSE]

initializeQuote(r) ==
    /\ LET q == initializeQuoteResult(quoteEls, quoteText, quoteAuthor, r)
       IN  /\ q.skipped => r = 0
           /\ quoteText' = q.text
           /\ quoteAuthor' = q.author
           /\ last' = IF q.skipped THEN [op |-> "initializeQuote", skipped |-> TRUE]
                      ELSE [op |-> "initializeQuote", skipped |-> FALSE, random |-> r,
                            returned |-> getRandomQuote(r)]
    /\ UNCHANGED <<quoteEls, tabVars, utilVars, toggleVars, navVars, swVars, appVars>>

\* The page as loaded: it has both quote elements, one of them, or none.
QuoteInit ==
    /\ quoteEls \in SUBSET {"quote", "quote-author"}
    /\ quoteText = << >>
    /\ quoteAuthor = << >>

\* A page without the quote elements.
QuoteIdle ==
    /\ quoteEls = {}
    /\ quoteText = << >>
    /\ quoteAuthor = << >>

(***************************************************************************)
(* AUDIENCE TABS                                                           *)
(***************************************************************************)
MaxTabs == 3    \* audience tabs on a page: 1..MaxTabs

\* A page with n tabs and their panels. Tab i carries data-audience i, panel i
\* data-content i; tab noAudience (if any) lacks the attribute, and the panel
\* of tab noPanel (if any) is not in the document. An absent data-audience
\* reads as 0.
MakeTabPage(n, noAudience, noPanel, script) ==
    [tabs   |-> [i \in 1..n |-> IF i = noAudience THEN 0 ELSE i],
     panels |-> [j \in 1..(IF noPanel \in 1..n THEN n - 1 ELSE n) |->
                    IF noPanel \in 1..n /\ j >= noPanel THEN j + 1 ELSE j],
     script |-> script]

TabPages ==
    {MakeTabPage(n, na, np, sc) :
        n \in 1..MaxTabs, na \in 0..MaxTabs, np \in 0..MaxTabs, sc \in {"modules", "main"}}

\* document.querySelector(`[data-content="${targetAudience}"]`): the first
\* matching panel, 0 for null.
QueryContent(p, targetAudience) ==
    LET hits == {j \in DOMAIN p.panels : p.panels[j] = targetAudience}
    IN  IF hits = {} THEN 0 ELSE CHOOSE j \in hits : \A k \in hits : j <= k

\* Mutant: the classes of the other tabs and panels are not removed.
TabClickResultKeep(p, active, panels, tab) ==
    [tabs |-> active \cup {tab},
     panels |-> panels \cup (DOMAIN p.panels \cap {QueryContent(p, p.tabs[tab])}),
     target |-> QueryContent(p, p.tabs[tab])]

\* The click listener of a tab with data-audience: the classes after it.
TabClickResult(p, active, panels, tab) ==
    LET targetContent == QueryContent(p, p.tabs[tab])
    IN  [tabs |-> (active \ DOMAIN p.tabs) \cup {tab},
         panels |-> (panels \ DOMAIN p.panels)
                    \cup (IF targetContent # 0 THEN {targetContent} ELSE {}),
         target |-> targetContent]

\* A click on an audience tab.
tabClick(tab) ==
    /\ tab \in DOMAIN tabPage.tabs
    /\ IF tabPage.tabs[tab] = 0        \* if (!targetAudience) return
       THEN /\ last' = [op |-> "tabClick", tab |-> tab, ignored |-> TRUE]
            /\ UNCHANGED <<tabActive, panelActive, tabSelected, panelHidden>>
       ELSE LET r == TabClickResult(tabPage, tabActive, panelActive, tab)
            IN  /\ tabActive' = r.tabs
                /\ panelActive' = r.panels
                /\ IF tabPage.script = "main"
                   THEN UNCHANGED <<tabSelected, panelHidden>>
                   ELSE /\ tabSelected' = [t \in DOMAIN tabPage.tabs |->
                                              IF t = tab THEN "true" ELSE "false"]
                        /\ panelHidden' = [c \in DOMAIN tabPage.panels |->
                                              IF c = r.target THEN "false" ELSE "true"]
                /\ last' = [op |-> "tabClick", tab |-> tab, ignored |-> FALSE]
    /\ UNCHANGED <<tabPage, quoteVars, utilVars, toggleVars, navVars, swVars, appVars>>

\* The page after initializeAudienceTabs: the markup has one tab active, with
\* its panel if the document has it; the modules' script has set aria-hidden
\* on the panels from their class.
TabsInit ==
    /\ tabPage \in TabPages
    /\ \E t \in DOMAIN tabPage.tabs :
          /\ tabActive = {t}
          /\ panelActive = {j \in DOMAIN tabPage.panels : tabPage.panels[j] = t}
    /\ tabSelected = [t \in DOMAIN tabPage.tabs |-> ""]
    /\ panelHidden = [c \in DOMAIN tabPage.panels |->
                         IF tabPage.script = "main" THEN ""
                         ELSE IF c \in panelActive THEN "false" ELSE "true"]

\* A page without audience tabs.
TabsIdle ==
    /\ tabPage = [tabs |-> << >>, panels |-> << >>, script |-> "modules"]
    /\ tabActive = {}
    /\ panelActive = {}
    /\ tabSelected = << >>
    /\ panelHidden = << >>

(***************************************************************************)
(* THROTTLE / DEBOUNCE                                                     *)
(***************************************************************************)
ClockStep == 50     \* the clock advances in steps of ClockStep ms
MaxTime   == 600    \* the clock stops at MaxTime ms

THROTTLE_DELAY == 100       \* limit of the throttled scroll handlers
ResizeDebounceWait == 200   \* wait of the debounced resize handler

\* The arguments of a call: the event the listener was called with.
CallArgs == {"event1", "event2"}

\* No call yet: the time -1 stands for "never".
NoCall == [at |-> -1, args |-> ""]

\* history: the last invocation of the throttled func, the last invocation of
\* the debounced func, the last call of the debounced wrapper, and how often
\* the debounced func ran since that call.
NoHistory == [throttle |-> NoCall, debounce |-> NoCall, trigger |-> NoCall, runs |-> 0]

\* setTimeout(callback, delay) called at time t: the callback runs at t + delay
\* or later.
Timeout(kind, t, delay, args) == [kind |-> kind, due |-> t + delay, args |-> args]

\* Mutant: the flag is reset with no delay.
ThrottleTimeoutAtOnce(t) == Timeout("reset", t, 0, "")

\* setTimeout(() => inThrottle = false, limit)
ThrottleTimeout(t) == Timeout("reset", t, THROTTLE_DELAY, "")

\* A call of the function throttle(func, limit) returned.
throttledCall(args) ==
    /\ IF ~inThrottle
       THEN /\ history' = [history EXCEPT !.throttle = [at |-> now, args |-> args]]  \* func.apply
            /\ inThrottle' = TRUE
            /\ timeouts' = timeouts \cup {ThrottleTimeout(now)}
       ELSE UNCHANGED <<history, inThrottle, timeouts>>
    /\ last' = [op |-> "throttledCall", args |-> args, at |-> now, ran |-> ~inThrottle,
                previous |-> history.throttle.at]
    /\ UNCHANGED <<now, quoteVars, tabVars, toggleVars, navVars, swVars, appVars>>

\* The timer callback () => inThrottle = false runs.
ThrottleReset ==
    /\ \E t \in timeouts :
          /\ t.kind = "reset"
          /\ now >= t.due
          /\ timeouts' = timeouts \ {t}
    /\ inThrottle' = FALSE
    /\ last' = [op |-> "throttleReset"]
    /\ UNCHANGED <<now, history, quoteVars, tabVars, toggleVars, navVars, swVars, appVars>>

\* Mutant: the pending timer is not cleared.
DebounceTimeoutsKept(ts, t, args) == ts \cup {Timeout("later", t, ResizeDebounceWait, args)}

\* clearTimeout(timeout); timeout = setTimeout(later, wait);
DebounceTimeouts(ts, t, args) ==
    {x \in ts : x.kind # "later"} \cup {Timeout("later", t, ResizeDebounceWait, args)}

\* A call of the function debounce(func, wait) returned (executedFunction).
\* Calls stop early enough for the clock to reach their timer.
debouncedCall(args) ==
    /\ now + ResizeDebounceWait <= (MaxTime \div ClockStep) * ClockStep
    /\ timeouts' = DebounceTimeouts(timeouts, now, args)
    /\ history' = [history EXCEPT !.trigger = [at |-> now, args |-> args], !.runs = 0]
    /\ last' = [op |-> "debouncedCall", args |-> args, at |-> now]
    /\ UNCHANGED <<now, inThrottle, quoteVars, tabVars, toggleVars, navVars, swVars, appVars>>

\* The timer callback later runs: clearTimeout(timeout); func(...args).
DebounceLater ==
    /\ \E t \in timeouts :
          /\ t.kind = "later"
          /\ now >= t.due
          /\ timeouts' = timeouts \ {t}
          /\ history' = [history EXCEPT !.debounce = [at |-> now, args |-> t.args],
                                        !.runs = IF @ < 2 THEN @ + 1 ELSE @]
          /\ last' = [op |-> "later", args |-> t.args, at |-> now]
    /\ UNCHANGED <<now, inThrottle, quoteVars, tabVars, toggleVars, navVars, swVars, appVars>>

\* Time passes.
ClockTick ==
    /\ now + ClockStep <= MaxTime
    /\ now' = now + ClockStep
    /\ last' = [op |-> "clock"]
    /\ UNCHANGED <<inThrottle, timeouts, history, quoteVars, tabVars, toggleVars, navVars, swVars, appVars>>

\* No wrapped function has been called.
UtilsIdle ==
    /\ now = 0
    /\ inThrottle = FALSE
    /\ timeouts = {}
    /\ history = NoHistory

(***************************************************************************)
(* ERROR HANDLER                                                           *)
(***************************************************************************)
maxErrors == 50         \* errorState.maxErrors

MaxLogged    == 53      \* logError is called at most MaxLogged times
MaxListeners == 2       \* listeners added at most

\* What a listener does when it is called with an entry.
ListenerKinds == {"returns", "throws"}

\* errorEntry: the n-th entry logError made (n stands for its timestamp).
ErrorEntry(n, error, severity, type) ==
    [n |-> n, message |-> error, severity |-> severity, type |-> type]

\* Mutant: when the buffer is full the new entry is the one dropped.
ErrorsAfterPushDropNewest(errs, entry) ==
    IF Len(errs) + 1 > maxErrors THEN errs ELSE Append(errs, entry)

\* errorState.errors.push(errorEntry); if (length > maxErrors) errors.shift()
ErrorsAfterPush(errs, entry) ==
    LET pushed == Append(errs, entry)
    IN  IF Len(pushed) > maxErrors THEN Tail(pushed) ELSE pushed

\* Mutant: an exception of a listener ends the notification.
NotifyUntilThrow(ls) ==
    LET throwers == {i \in 1..Len(ls) : ls[i] = "throws"}
    IN  [called |-> {i \in 1..Len(ls) : \A j \in throwers : i <= j},
         caught |-> {i \in throwers : \A j \in throwers : i <= j}]

\* errorState.listeners.forEach(listener => { try { listener(entry) } catch ... }):
\* which listeners were called, and whose exception was caught.
Notify(ls) ==
    [called |-> 1..Len(ls), caught |-> {i \in 1..Len(ls) : ls[i] = "throws"}]

\* logError(error, severity, context) on the state es = [errors, logged].
logErrorResult(es, error, severity, type) ==
    [errors |-> ErrorsAfterPush(es.errors,
                                ErrorEntry(es.logged + 1, error, severity, type)),
     logged |-> es.logged + 1]

ErrorState == [errors |-> errors, logged |-> logged]

\* A call of logError by one of the module's handlers (uncaught error,
\* unhandled rejection, image error).
logError(error, severity, type) ==
    /\ logged < MaxLogged
    /\ LET r == logErrorResult(ErrorState, error, severity, type)
           n == Notify(listeners)
       IN  /\ errors' = r.errors
           /\ logged' = r.logged
           /\ last' = [op |-> "logError", n |-> r.logged, called |-> n.called,
                       caught |-> n.caught]
    /\ UNCHANGED <<listeners, net, initVars, quoteVars, tabVars, utilVars, toggleVars, navVars, swVars>>

\* clearErrors()
clearErrors ==
    /\ errors' = << >>
    /\ last' = [op |-> "clearErrors"]
    /\ UNCHANGED <<listeners, logged, net, initVars, quoteVars, tabVars, utilVars, toggleVars,
                   navVars, swVars>>

\* addErrorListener(listener), listener a function.
addErrorListener(kind) ==
    /\ Len(listeners) < MaxListeners
    /\ listeners' = Append(listeners, kind)
    /\ last' = [op |-> "addErrorListener"]
    /\ UNCHANGED <<errors, logged, net, initVars, quoteVars, tabVars, utilVars, toggleVars,
                   navVars, swVars>>

\* ---- handleNetworkRequest ----------------------------------------------
MaxRetriesOption == 3     \* options.maxRetries: 0..MaxRetriesOption (the default is 3)
MaxRequests      == 1     \* calls of handleNetworkRequest, one after the other

DefaultRetryDelay == 1000
DefaultTimeout    == 10000

\* The options callers pass; onError says whether a callback was given.
RequestOptions ==
    [maxRetries : 0..MaxRetriesOption, retryDelay : {DefaultRetryDelay, 250},
     timeout : {DefaultTimeout}, onError : BOOLEAN]

FetchFailure   == "TypeError: Failed to fetch"
RequestTimeout == "Request timeout"
FetchResult    == "response"

\* net: pc is where the async function stands (racing: awaiting Promise.race;
\* waiting: awaiting the retry delay), attempt the loop variable, calls the
\* number of fetchFunction() calls, timer the delay of the pending setTimeout,
\* waits the retry delays awaited so far, onErrorCalls the arguments onError
\* was called with, settled what the returned promise settled with.
NoRequestInProgress ==
    [pc |-> "idle", maxRetries |-> 0, retryDelay |-> 0, timeout |-> 0, onError |-> FALSE,
     attempt |-> 0, calls |-> 0, timer |-> 0, waits |-> << >>, lastError |-> "",
     onErrorCalls |-> << >>, settled |-> "", requests |-> 0]

\* One turn of the loop up to its await: the timeout timer is set,
\* fetchFunction() is called, and the function awaits the race of the two.
StartAttempt(n) == [n EXCEPT !.pc = "racing", !.calls = @ + 1, !.timer = n.timeout]

\* Mutant: the last attempt is followed by a retry delay and one more attempt.
AfterFailedAttemptOneMore(n, error) ==
    IF n.attempt <= n.maxRetries
    THEN [n EXCEPT !.lastError = error, !.pc = "waiting",
                   !.timer = n.retryDelay * (n.attempt + 1)]
    ELSE [n EXCEPT !.lastError = error, !.pc = "rejected", !.timer = 0,
                   !.onErrorCalls = IF n.onError THEN Append(@, error) ELSE @,
                   !.settled = error]

\* catch (error) of the loop, and what follows the loop after the last attempt:
\* onError(lastError); throw lastError.
AfterFailedAttempt(n, error) ==
    IF n.attempt < n.maxRetries
    THEN [n EXCEPT !.lastError = error, !.pc = "waiting",
                   !.timer = n.retryDelay * (n.attempt + 1)]
    ELSE [n EXCEPT !.lastError = error, !.pc = "rejected", !.timer = 0,
                   !.onErrorCalls = IF n.onError THEN Append(@, error) ELSE @,
                   !.settled = error]

\* The logError calls of a failed attempt: the warning of the catch block and,
\* after the last attempt, the error logged behind the loop.
LogFailedAttempt(es, n, error) ==
    LET warned == logErrorResult(es, error, "warning", "network-error")
    IN  IF AfterFailedAttempt(n, error).pc = "rejected"
        THEN logErrorResult(warned, error, "error", "network-error-all-retries-failed")
        ELSE warned

\* handleNetworkRequest(fetchFunction, options) is called.
handleNetworkRequest(options) ==
    /\ net.pc \in {"idle", "resolved", "rejected"}
    /\ net.requests < MaxRequests
    /\ net' = StartAttempt([NoRequestInProgress EXCEPT
                               !.maxRetries = options.maxRetries,
                               !.retryDelay = options.retryDelay,
                               !.timeout = options.timeout,
                               !.onError = options.onError,
                               !.requests = net.requests + 1])
    /\ last' = [op |-> "handleNetworkRequest"]
    /\ UNCHANGED <<errVars, initVars, quoteVars, tabVars, utilVars, toggleVars, navVars, swVars>>

\* fetchFunction()'s promise fulfils first: return result.
FetchFulfils ==
    /\ net.pc = "racing"
    /\ net' = [net EXCEPT !.pc = "resolved", !.timer = 0, !.settled = FetchResult]
    /\ last' = [op |-> "fetchFulfils"]
    /\ UNCHANGED <<errVars, initVars, quoteVars, tabVars, utilVars, toggleVars, navVars, swVars>>

\* The race rejects with error: the catch block runs.
AttemptFails(error) ==
    /\ net.pc = "racing"
    /\ net' = AfterFailedAttempt(net, error)
    /\ LET r == LogFailedAttempt(ErrorState, net, error)
       IN  errors' = r.errors /\ logged' = r.logged
    /\ last' = [op |-> "attemptFails", error |-> error]
    /\ UNCHANGED <<listeners, initVars, quoteVars, tabVars, utilVars, toggleVars, navVars, swVars>>

\* fetchFunction() throws, or its promise rejects first.
FetchRejects == AttemptFails(FetchFailure)

\* The timeout timer fires first: reject(new Error('Request timeout')).
TimeoutFires == AttemptFails(RequestTimeout)

\* The retry delay is over: attempt++, and the next turn of the loop starts.
RetryDelayOver ==
    /\ net.pc = "waiting"
    /\ net' = StartAttempt([net EXCEPT !.attempt = @ + 1, !.waits = Append(@, net.timer)])
    /\ last' = [op |-> "retryDelayOver"]
    /\ UNCHANGED <<errVars, initVars, quoteVars, tabVars, utilVars, toggleVars, navVars, swVars>>

ErrIdle ==
    /\ errors = << >>
    /\ listeners = << >>
    /\ logged = 0
    /\ net = NoRequestInProgress

(***************************************************************************)
(* APPLICATION ENTRY POINT                                                 *)
(***************************************************************************)
ContactNearTop == 400     \* offsetTop of a #contact section inside the first viewport
ContactFarTop  == 900     \* offsetTop of a #contact section below the first viewport

\* An element matched by '[data-user][data-domain]'.
EmailElement(tag, user, domain) == [tag |-> tag, user |-> Attr(user), domain |-> Attr(domain)]

\* What the page has of the elements the initializers look for: the floating
\* contact button, the contact section (and where it is), the e-mail elements.
DocFeatures ==
    [floatingContact : BOOLEAN,
     contact : BOOLEAN,
     contactTop : {ContactNearTop, ContactFarTop},
     emailEls : {<< >>,
                 <<EmailElement("SPAN", UserA, DomainB), EmailElement("A", UserA, DomainB)>>,
                 <<EmailElement("SPAN", << >>, DomainB)>>}]

NoDocFeatures ==
    [floatingContact |-> FALSE, contact |-> FALSE, contactTop |-> ContactNearTop,
     emailEls |-> << >>]

UnsetFloatStyle == [opacity |-> "", pointerEvents |-> "", ariaHidden |-> ""]

\* initializeEmailObfuscation(): the elements' textContent after it.
initializeEmailObfuscationResult(els, text) ==
    [i \in DOMAIN els |->
        LET email == constructEmail(els[i].user, els[i].domain)
        IN  IF els[i].tag = "SPAN" /\ email.ok THEN email.address ELSE text[i]]

\* initializeAudienceTabs(): the panels' aria-hidden after it, and whether the
\* tabs got their click listener.
initializeAudienceTabsResult(p, active, hidden) ==
    IF Len(p.tabs) = 0
    THEN [panelHidden |-> hidden, listening |-> FALSE]
    ELSE [panelHidden |-> IF p.script = "main" THEN hidden
                          ELSE [c \in DOMAIN p.panels |->
                                   IF c \in active THEN "false" ELSE "true"],
          listening |-> TRUE]

\* The initializers of initializeApp that returned at their test for a
\* missing element.
ReturnedEarly(r) ==
    {f \in {"initializeEmailObfuscation", "initializeQuote", "initializeAudienceTabs",
            "initializeFloatingContact", "updateActiveNavLink"} : r[f]}

\* initializeApp(): the seven calls in order, then the resize listeners. Each
\* initializer runs inside its own try / catch and tests for its elements
\* before it uses them.
initializeApp(r) ==
    /\ registered = {}
    /\ LET q    == initializeQuoteResult(quoteEls, quoteText, quoteAuthor, r)
           tabs == initializeAudienceTabsResult(tabPage, panelActive, panelHidden)
           nav  == updateActiveNavLinkResult(page, scrollY, Sidebar)
       IN  /\ q.skipped => r = 0
           /\ emailText' = initializeEmailObfuscationResult(doc.emailEls, emailText)
           /\ quoteText' = q.text
           /\ quoteAuthor' = q.author
           /\ panelHidden' = tabs.panelHidden
           /\ linkActive' = nav.sidebar.linkActive
           /\ linkStyle' = nav.sidebar.linkStyle
           /\ navTransform' = nav.sidebar.navTransform
           /\ registered' = {"click", "scroll", "resize", "orientationchange"}
                             \cup (IF tabs.listening THEN {"tabClick"} ELSE {})
                             \cup (IF doc.floatingContact THEN {"contactScroll"} ELSE {})
           /\ last' = [op |-> "initializeApp", random |-> r,
                       early |-> ReturnedEarly(
                          [initializeEmailObfuscation |-> Len(doc.emailEls) = 0,
                           initializeQuote |-> q.skipped,
                           initializeAudienceTabs |-> ~tabs.listening,
                           initializeFloatingContact |-> ~doc.floatingContact,
                           updateActiveNavLink |-> nav.early])]
    /\ UNCHANGED <<doc, floatStyle, quoteEls, tabPage, tabActive, panelActive, tabSelected,
                   page, scrollY, errVars, net, utilVars, toggleVars, swVars>>

\* handleContactScroll, the scroll listener of initializeFloatingContact.
handleContactScroll ==
    /\ "contactScroll" \in registered
    /\ IF ~doc.contact             \* if (!contactSection) return
       THEN UNCHANGED floatStyle
       ELSE LET isNearContact == doc.contactTop - scrollY < page.innerHeight
            IN  floatStyle' =
                  [opacity |-> IF isNearContact THEN "0" ELSE "1",
                   pointerEvents |-> IF isNearContact THEN "none" ELSE "auto",
                   ariaHidden |-> IF page.script = "main" THEN floatStyle.ariaHidden
                                  ELSE IF isNearContact THEN "true" ELSE "false"]
    /\ last' = [op |-> "handleContactScroll"]
    /\ UNCHANGED <<doc, emailText, registered, errVars, net, quoteVars, tabVars, utilVars,
                   toggleVars, navVars, swVars>>

\* The page as loaded, before the script runs.
AppInit ==
    /\ doc \in DocFeatures
    /\ (~doc.contact) => doc.contactTop = ContactNearTop
    /\ floatStyle = UnsetFloatStyle
    /\ emailText = [i \in DOMAIN doc.emailEls |-> << >>]
    /\ registered = {}

\* A page without these elements, whose script is not looked at.
AppIdle ==
    /\ doc = NoDocFeatures
    /\ floatStyle = UnsetFloatStyle
    /\ emailText = << >>
    /\ registered = {}

UiIdle == QuoteIdle /\ TabsIdle /\ UtilsIdle /\ ErrIdle /\ AppIdle

(***************************************************************************)
(* SPECIFICATIONS                                                          *)
(***************************************************************************)
NoOp == [op |-> "init"]

InitToggle == ToggleInit /\ NavIdle /\ SWIdle /\ UiIdle /\ last = NoOp
NextToggle ==
    \/ \E b \in Badges : toggleCert(b)
    \/ \E c \in Cards : toggleProject(c)
    \/ \E i \in 1..MaxTimers : TimerFires(i)
    \/ Tick
SpecToggle == InitToggle /\ [][NextToggle]_vars

InitNav == NavInit /\ ToggleInit /\ SWIdle /\ UiIdle /\ last = NoOp
NextNav ==
    \/ updateActiveNavLink
    \/ \E y \in ScrollPositions(page) : ScrollTo(y)
SpecNav == InitNav /\ [][NextNav]_vars

InitSW == SWInit /\ ToggleInit /\ NavIdle /\ UiIdle /\ last = NoOp
NextSW ==
    \/ InstallEvent
    \/ InstallOpened
    \/ InstallPrecached
    \/ InstallFailed
    \/ OldClientsClose
    \/ ActivateEvent
    \/ ActivateKeys
    \/ \E name \in OlderCaches \cup {ForeignCache, CACHE_NAME} : ActivateDelete(name)
    \/ ActivateDone
    \/ \E h \in FetchSlots, req \in Requests : FetchEvent(h, req)
    \/ \E h \in FetchSlots : CacheMatchResolves(h)
    \/ \E h \in FetchSlots, r \in UNION {NetResponses(q) : q \in Requests} :
            NetworkResponds(h, r)
    \/ \E h \in FetchSlots : NetworkFails(h)
    \/ \E h \in FetchSlots : OfflineMatchResolves(h)
    \/ \E w \in pendingPuts : CacheWrite(w)
    \/ \E m \in MsgSlots, d \in Messages : MessageEvent(m, d.type, d.port)
    \/ \E m \in MsgSlots : ClearDeleted(m)
    \/ \E m \in MsgSlots : ClearAcked(m)
SpecSW == InitSW /\ [][NextSW]_vars

\* The worker replacing a previous version whose handlers are still running.
InitSWUpdate == SWUpdateInit /\ ToggleInit /\ NavIdle /\ UiIdle /\ last = NoOp
NextSWUpdate ==
    \/ NextSW
    \/ \E w \in PreviousWrites : PreviousCacheWrite(w)
SpecSWUpdate == InitSWUpdate /\ [][NextSWUpdate]_vars

InitClick == ToggleInit /\ NavIdle /\ SWIdle /\ UiIdle /\ last = NoOp
NextClick ==
    \/ \E ev \in ClickEvents : ClickEvent(ev)
    \/ \E i \in 1..MaxTimers : TimerFires(i)
    \/ Tick
SpecClick == InitClick /\ [][NextClick]_vars

InitUtils == AppIdle /\ UtilsIdle /\ QuoteIdle /\ TabsIdle /\ ErrIdle /\ ToggleInit /\ NavIdle /\ SWIdle /\ last = NoOp

NextThrottle ==
    \/ \E args \in CallArgs : throttledCall(args)
    \/ ThrottleReset
    \/ ClockTick
SpecThrottle == InitUtils /\ [][NextThrottle]_vars

NextDebounce ==
    \/ \E args \in CallArgs : debouncedCall(args)
    \/ DebounceLater
    \/ ClockTick
SpecDebounce == InitUtils /\ [][NextDebounce]_vars

\* The event loop runs a timer callback that is due, and time does not stop.
FairSpecDebounce == SpecDebounce /\ WF_vars(DebounceLater) /\ WF_vars(ClockTick)

InitTabs == AppIdle /\ TabsInit /\ QuoteIdle /\ UtilsIdle /\ ErrIdle /\ ToggleInit /\ NavIdle /\ SWIdle /\ last = NoOp
NextTabs == \E tab \in 1..MaxTabs : tabClick(tab)
SpecTabs == InitTabs /\ [][NextTabs]_vars

InitQuote == AppIdle /\ QuoteInit /\ TabsIdle /\ UtilsIdle /\ ErrIdle /\ ToggleInit /\ NavIdle /\ SWIdle /\ last = NoOp
NextQuote == \E r \in 0..(RandomResolution - 1) : initializeQuote(r)
SpecQuote == InitQuote /\ [][NextQuote]_vars

InitErrors == AppIdle /\ ErrIdle /\ QuoteIdle /\ TabsIdle /\ UtilsIdle /\ ToggleInit /\ NavIdle /\ SWIdle
                /\ last = NoOp
NextErrors ==
    \/ logError("ReferenceError", "error", "uncaught-error")
    \/ clearErrors
    \/ \E kind \in ListenerKinds : addErrorListener(kind)
SpecErrors == InitErrors /\ [][NextErrors]_vars

NextNet ==
    \/ \E options \in RequestOptions : handleNetworkRequest(options)
    \/ FetchFulfils
    \/ FetchRejects
    \/ TimeoutFires
    \/ RetryDelayOver
SpecNet == InitErrors /\ [][NextNet]_vars

\* The event loop runs a timer callback that is due: the timeout of an attempt
\* and the retry delay both come to an end.
FairSpecNet == SpecNet /\ WF_vars(TimeoutFires) /\ WF_vars(RetryDelayOver)

\* The pages initializeApp is run on: with and without each sidebar part,
\* without sections, without links, in either script.
AppDocuments ==
    {MakePage(2, 0, "flow", "each", pt) : pt \in {"full", "noSidebar", "noArc", "noNavList"}}
    \cup {MakePage(0, HeroHeight, "flow", "topLink", "full"),
          MakePage(1, 0, "flow", "noFirst", "full")}
AppPages == AppDocuments \cup {WithMainScript(p) : p \in AppDocuments}

\* The tabs of those pages: none, none but two panels, or two tabs with their
\* panels, the first active.
AppTabs(script) ==
    {[tabs |-> << >>, panels |-> << >>, script |-> script],
     [tabs |-> << >>, panels |-> <<1, 2>>, script |-> script],
     MakeTabPage(2, 0, 0, script)}

InitApp ==
    /\ AppInit
    /\ quoteEls \in SUBSET {"quote", "quote-author"}
    /\ quoteText = << >> /\ quoteAuthor = << >>
    /\ page \in AppPages
    /\ scrollY = 0
    /\ linkActive = [j \in DOMAIN page.hrefs |-> FALSE]
    /\ linkStyle = [j \in DOMAIN page.hrefs |-> UnsetStyle]
    /\ navTransform = [set |-> FALSE, centredOn |-> -1]
    /\ tabPage \in AppTabs(page.script)
    /\ tabActive = (IF Len(tabPage.tabs) = 0 THEN {} ELSE {1})
    /\ panelActive = (IF Len(tabPage.panels) = 0 THEN {} ELSE {1})
    /\ tabSelected = [t \in DOMAIN tabPage.tabs |-> ""]
    /\ panelHidden = [c \in DOMAIN tabPage.panels |-> ""]
    /\ UtilsIdle /\ ErrIdle /\ ToggleInit /\ SWIdle
    /\ last = NoOp

\* The script runs once the page is loaded; afterwards its listeners are
\* called: resize (updateActiveNavLink), scroll (handleContactScroll), click.
NextApp ==
    \/ \E r \in {0, RandomResolution - 1} : initializeApp(r)
    \/ ("resize" \in registered /\ updateActiveNavLink)
    \/ handleContactScroll
    \/ ("click" \in registered /\
           \E ev \in {NoTargets, WithEmail(NoTargets, "A", << >>, DomainB),
                       WithEmail(NoTargets, "SPAN", UserA, DomainB)} : ClickEvent(ev))
    \/ toggleCert(NoElement)
    \/ toggleProject(NoElement)
SpecApp == InitApp /\ [][NextApp]_vars

\* The cache writes a fetch handler can start.
PossibleWrites ==
    UNION {{[url |-> q.url, response |-> r] : r \in NetResponses(q)} : q \in Requests}

\* Promise callbacks run once their promise settled, and a storage operation
\* that was started completes: a pending cache write is eventually done.
FairSpecSW ==
    SpecSW /\ \A w \in {v \in PossibleWrites : IsCacheable(v.response)} : WF_vars(CacheWrite(w))

(***************************************************************************)
(* CLAIMS                                                                  *)
(***************************************************************************)

\* C1: in each toggle group (certification badges, project cards) at most one
\* member carries the class 'expanded', after any sequence of toggle clicks.
C1_AtMostOneExpanded ==
    /\ Cardinality(certExpanded) <= 1
    /\ Cardinality(projExpanded) <= 1

\* A badge was expanded by a click while a sibling's collapse is still animating.
C1_Witness ==
    /\ last.op = "toggleCert"
    /\ certExpanded = {last.el}
    /\ \E i \in 1..Len(timers) : timers[i].kind = "cleanup" /\ timers[i].el # last.el

\* C2: a toggle on an expanded member leaves it collapsed; a toggle on a
\* collapsed member leaves it expanded and every other member of its group
\* collapsed.
C2_ToggleFlips ==
    /\ last.op = "toggleCert" =>
          IF last.wasExpanded THEN last.el \notin certExpanded
          ELSE certExpanded = {last.el}
    /\ last.op = "toggleProject" =>
          IF last.wasExpanded THEN last.el \notin projExpanded
          ELSE projExpanded = {last.el}

\* A click collapsed an expanded badge, and the badge's cleanup timer is pending.
C2_Witness ==
    /\ last.op = "toggleCert"
    /\ last.wasExpanded
    /\ last.el \notin certExpanded
    /\ \E i \in 1..Len(timers) : timers[i].kind = "cleanup" /\ timers[i].el = last.el

\* The sections the viewport has scrolled past: offsetTop - 150 <= scrollY.
PassedSections == {k \in DOMAIN page.offsets : page.offsets[k] - 150 <= scrollY}

WithinBottomThreshold == scrollY + page.innerHeight >= page.scrollHeight - 10

\* C3: the active section updateActiveNavLink computes is a function of the
\* scroll position and the layout alone: the last section in document order
\* with offsetTop - 150 <= scrollY, and the last section of the document
\* whenever scrollY + innerHeight >= scrollHeight - 10.
C3_ActiveSection ==
    (last.op = "updateActiveNavLink" /\ ~last.early) =>
        IF WithinBottomThreshold
        THEN last.currentSection = page.nSections - 1
        ELSE PassedSections # {} =>
                /\ last.currentSection \in PassedSections
                /\ \A k \in PassedSections : k <= last.currentSection

\* At the bottom of the page the last section is active although the viewport
\* has not scrolled past its threshold.
C3_Witness ==
    /\ last.op = "updateActiveNavLink" /\ ~last.early
    /\ WithinBottomThreshold
    /\ page.nSections >= 3
    /\ last.currentSection = page.nSections - 1
    /\ (page.nSections - 1) \notin PassedSections

VisibleLinks == {j \in DOMAIN linkStyle : linkStyle[j].visibility = "visible"}

\* C4: after updateActiveNavLink with n links and active index a, the visible
\* links are one contiguous range of min(5, n) indices that contains a; it is
\* [a-2, a+2] when that lies within [0, n-1] and is shifted to stay within
\* [0, n-1] otherwise.
C4_VisibleWindow ==
    (last.op = "updateActiveNavLink" /\ ~last.early /\ last.activeIndex # -1) =>
        LET a == last.activeIndex
            n == page.nLinks
        IN  /\ VisibleLinks # {}
            /\ \E lo \in VisibleLinks, hi \in VisibleLinks :
                  /\ VisibleLinks = lo..hi
                  /\ 0 <= lo /\ hi <= n - 1
                  /\ (a - 2 < 0) => lo = 0
                  /\ (a + 2 > n - 1) => hi = n - 1
            /\ Cardinality(VisibleLinks) = Min2(5, n)
            /\ a \in VisibleLinks
            /\ (a - 2 >= 0 /\ a + 2 <= n - 1) => VisibleLinks = (a - 2)..(a + 2)

\* The last of at least seven links is active: the window is shifted back.
C4_Witness ==
    /\ last.op = "updateActiveNavLink" /\ ~last.early
    /\ page.nLinks >= 7
    /\ last.activeIndex = page.nLinks - 1
    /\ VisibleLinks = (page.nLinks - 5)..(page.nLinks - 1)

SiteCaches(cs) == {n \in DOMAIN cs : n.prefix = "portfolio-"}

\* C5: when the activate handler of the version with cache name CACHE_NAME
\* completes, every other cache whose name starts with 'portfolio-' is gone:
\* at most one cache with that prefix survives activation.
C5_ActivationCleansOldCaches ==
    [][(swState = "activating" /\ swState' = "activated") =>
          /\ SiteCaches(caches') \subseteq {CACHE_NAME}
          /\ Cardinality(SiteCaches(caches')) <= 1]_vars

\* Activation found caches of both older versions and completed; the active
\* cache and the cache of another script are still there.
C5_Witness ==
    /\ swState = "activated"
    /\ OlderCaches \subseteq activation.seen
    /\ CACHE_NAME \in DOMAIN caches
    /\ ForeignCache \in DOMAIN caches

\* C6: on {type:'CLEAR_CACHE'} the worker deletes the cache named CACHE_NAME
\* and no other, and the acknowledgement is posted on the reply port only
\* after that deletion has completed.
C6_ClearCache ==
    /\ [][\A m \in MsgSlots :
            (msgs[m].pc = "deleting" /\ msgs'[m].pc # "deleting") =>
                /\ DOMAIN caches' = (DOMAIN caches) \ {CACHE_NAME}
                /\ \A n \in DOMAIN caches' : caches'[n] = caches[n]]_vars
    /\ [][\A m \in MsgSlots :
            (msgs[m].pc # "deleting" /\ msgs'[m] # msgs[m]) => caches' = caches]_vars
    /\ [](\A m \in MsgSlots :
            msgs[m].acked => msgs[m].type = "CLEAR_CACHE" /\ msgs[m].port /\ msgs[m].deleted)

\* A clear was acknowledged: the active cache is gone, another script's is not.
C6_Witness ==
    \E m \in MsgSlots :
        /\ msgs[m].acked /\ msgs[m].deleted
        /\ CACHE_NAME \notin DOMAIN caches
        /\ ForeignCache \in DOMAIN caches
        /\ activation.seen # {}

\* The cached responses for a url, over every cache.
CachedResponses(cs, url) == {cs[n][url] : n \in {k \in DOMAIN cs : url \in DOMAIN cs[k]}}

Stored(cs, w) ==
    /\ CACHE_NAME \in DOMAIN cs
    /\ w.url \in DOMAIN cs[CACHE_NAME]
    /\ cs[CACHE_NAME][w.url] = w.response

PassesThrough(req) == req.method # "GET" \/ req.url.origin # SelfOrigin

\* C9: for a request that is not a GET, or not of the worker's origin, the
\* handler calls no respondWith, looks nothing up, fetches nothing and leaves
\* every cache as it is.
C9_PassThrough ==
    /\ [](\A h \in FetchSlots :
            (fetches[h].pc # "idle" /\ PassesThrough(fetches[h].req)) =>
                /\ fetches[h].pc = "done"
                /\ ~fetches[h].respondWith
                /\ ~fetches[h].looked
                /\ ~fetches[h].fetched
                /\ fetches[h].settled = "none")
    /\ [][\A h \in FetchSlots :
            (/\ fetches'[h] # fetches[h]
             /\ fetches'[h].pc # "idle"
             /\ PassesThrough(fetches'[h].req)) =>
                caches' = caches /\ pendingPuts' = pendingPuts]_vars

\* A cross-origin GET went through the listener untouched.
C9_Witness ==
    \E h \in FetchSlots :
        /\ fetches[h].pc = "done"
        /\ fetches[h].req.method = "GET"
        /\ fetches[h].req.url.origin = CdnOrigin
        /\ ~fetches[h].respondWith

\* C10 as claimed: a navigation that misses the cache and fails on the network
\* is always answered with the offline page '/404.html'.
C10_AlwaysOfflinePage ==
    \A h \in FetchSlots :
        (fetches[h].pc = "done" /\ fetches[h].via = "offline") =>
            /\ fetches[h].settled = "response"
            /\ fetches[h].response.path = OfflinePath

\* C10, amended: a navigation that misses the cache and fails on the network
\* is answered with the result of caches.match('/404.html') at that moment:
\* the cached offline page when some cache holds it, undefined otherwise.
C10_OfflinePageIfCached ==
    /\ [][\A h \in FetchSlots :
            (/\ fetches[h].pc = "fetching"
             /\ fetches[h].req.mode = "navigate"
             /\ fetches'[h] # fetches[h]
             /\ fetches'[h].via # "network") => fetches'[h].pc = "offline"]_vars
    /\ [][\A h \in FetchSlots :
            (fetches[h].pc = "offline" /\ fetches'[h] # fetches[h]) =>
                LET held == CachedResponses(caches, Url(SelfOrigin, "/404.html"))
                IN  /\ fetches'[h].pc = "done" /\ fetches'[h].via = "offline"
                    /\ IF held # {}
                       THEN /\ fetches'[h].settled = "response"
                            /\ fetches'[h].response \in held
                       ELSE fetches'[h].settled = "undefined"]_vars

\* A failed navigation to a page outside the precache got the offline page.
C10_Witness ==
    \E h \in FetchSlots :
        /\ fetches[h].pc = "done" /\ fetches[h].via = "offline"
        /\ fetches[h].req.mode = "navigate"
        /\ fetches[h].settled = "response"
        /\ fetches[h].response = Response("/404.html", 200, "basic", "fresh")

\* C11: when a same-origin GET request that is not a navigation misses the
\* cache and its network fetch fails, the response given to respondWith
\* rejects with that network error (no fallback response is substituted) and
\* no cache entry is added or changed, nor is a cache write started.
C11_FailurePropagates ==
    [][\A h \in FetchSlots :
          (/\ fetches[h].pc = "fetching"
           /\ fetches[h].req.mode # "navigate"
           /\ fetches'[h] # fetches[h]
           /\ fetches'[h].settled # "response") =>
              /\ fetches'[h].pc = "done"
              /\ fetches'[h].settled = "rejected"
              /\ fetches'[h].error = "TypeError: Failed to fetch"
              /\ fetches'[h].response = NoResponse
              /\ caches' = caches
              /\ pendingPuts' = pendingPuts]_vars

\* A no-cors request for a page outside the precache failed on the network
\* while the offline page was in the active cache: the page got the rejection.
C11_Witness ==
    \E h \in FetchSlots :
        /\ fetches[h].pc = "done" /\ fetches[h].settled = "rejected"
        /\ fetches[h].req = Request(Url(SelfOrigin, "/privacy.html"), "GET", "no-cors")
        /\ fetches[h].fetched
        /\ CachedResponses(caches, Url(SelfOrigin, "/404.html")) # {}

\* The precache list is in the versioned cache.
PrecacheStored(cs) ==
    /\ CACHE_NAME \in DOMAIN cs
    /\ \A p \in Range(STATIC_ASSETS) \cup Range(FONT_ASSETS) :
            Url(SelfOrigin, p) \in DOMAIN cs[CACHE_NAME]

\* C12 as claimed: the install step completes (so that the worker can go on to
\* waiting, activating and active) only with every asset of STATIC_ASSETS and
\* FONT_ASSETS stored in the versioned cache by the precache.
C12_InstallOnlyAfterPrecache ==
    [][(swState = "installAdding" /\ swState' = "installed") => PrecacheStored(caches')]_vars

\* The steps by which a handler of the click listener is entered.
HandlerSteps == {"toggleCert", "toggleProject", "scrollToTop", "constructEmail"}

StepsOf(kinds) == {i \in 1..Len(last.steps) : last.steps[i] \in kinds}

\* C13: for every click the delegated listener runs at most one handler,
\* chosen in the order data-toggle ancestor, data-action ancestor,
\* data-user/data-domain anchor (a later one runs only when no earlier
\* ancestor exists), and preventDefault() comes before the handler acts.
C13_RoutingPriority ==
    last.op = "click" =>
        LET ev == last.ev
        IN  /\ Cardinality(StepsOf(HandlerSteps)) <= 1
            /\ ev.toggle.present =>
                  /\ StepsOf({"scrollToTop", "constructEmail", "navigate"}) = {}
                  /\ ev.toggle.value = "cert" => StepsOf({"toggleCert"}) # {}
                  /\ ev.toggle.value = "project" => StepsOf({"toggleProject"}) # {}
            /\ (~ev.toggle.present /\ ev.action.present) =>
                  /\ StepsOf({"toggleCert", "toggleProject", "constructEmail", "navigate"}) = {}
                  /\ ev.action.value = "scroll-top" => StepsOf({"scrollToTop"}) # {}
            /\ (~ev.toggle.present /\ ~ev.action.present) =>
                  /\ StepsOf({"toggleCert", "toggleProject", "scrollToTop"}) = {}
                  /\ ev.emailTag = "A" => StepsOf({"constructEmail"}) # {}
            /\ \A i \in StepsOf(HandlerSteps \cup {"navigate"}) :
                  \E j \in 1..(i - 1) : last.steps[j] = "preventDefault"

\* A click inside a badge that also has a data-action and an e-mail anchor
\* above it expanded the badge and did nothing else.
C13_Witness ==
    /\ last.op = "click"
    /\ last.ev.toggle = Attr("cert") /\ last.ev.action.present /\ last.ev.emailTag = "A"
    /\ last.steps = <<"preventDefault", "toggleCert">>
    /\ certExpanded = {last.ev.toggleEl}

\* The click was routed to a branch whose value the listener does not know.
UnknownValue(ev) ==
    \/ ev.toggle.present /\ ev.toggle.value \notin {"cert", "project"}
    \/ ~ev.toggle.present /\ ev.action.present /\ ev.action.value # "scroll-top"

UnescapedChar(h1, h2) ==
    CASE <<h1, h2>> = <<"4", "0">> -> "@"
      [] <<h1, h2>> = <<"2", "B">> -> "+"
      [] <<h1, h2>> = <<"2", "0">> -> " "
      [] <<h1, h2>> = <<"2", "5">> -> "%"
      [] OTHER -> "?"

RECURSIVE DecodeURIComponent(_)
DecodeURIComponent(str) ==
    IF str = << >> THEN << >>
    ELSE IF Head(str) = "%" /\ Len(str) >= 3
         THEN <<UnescapedChar(str[2], str[3])>> \o DecodeURIComponent(SubSeq(str, 4, Len(str)))
         ELSE <<Head(str)>> \o DecodeURIComponent(Tail(str))

\* C15: for non-empty data-user u and data-domain d the address is u, '@', d,
\* and a click on such an anchor navigates to 'mailto:' followed by the
\* URI-component encoding of the address ('@' is sent as '%40': a / b.com
\* gives a@b.com and mailto:a%40b.com); when u or d is missing or empty no
\* address is constructed and no navigation happens.
C15_MailtoAddress ==
    /\ \A u \in {NoAttr, Attr(<< >>), Attr(UserA), Attr(UserPlus)},
          d \in {NoAttr, Attr(<< >>), Attr(DomainB)} :
            IF u.present /\ u.value # << >> /\ d.present /\ d.value # << >>
            THEN constructEmail(u, d) = [ok |-> TRUE, address |-> u.value \o <<"@">> \o d.value]
            ELSE ~constructEmail(u, d).ok
    /\ constructEmail(Attr(<<"a">>), Attr(<<"b", ".", "c", "o", "m">>)).address
            = <<"a", "@", "b", ".", "c", "o", "m">>
    /\ (last.op = "click" /\ StepsOf({"constructEmail"}) # {}) =>
            LET u == last.ev.user.value
                d == last.ev.domain.value
                url == last.navigate
            IN  IF u # << >> /\ d # << >>
                THEN /\ last.steps[Len(last.steps)] = "navigate"
                     /\ SubSeq(url, 1, 7) = <<"m", "a", "i", "l", "t", "o", ":">>
                     /\ \A i \in 8..Len(url) : url[i] # "@"
                     /\ DecodeURIComponent(SubSeq(url, 8, Len(url))) = u \o <<"@">> \o d
                     /\ (u = <<"a">> /\ d = <<"b", ".", "c", "o", "m">>) =>
                            url = <<"m", "a", "i", "l", "t", "o", ":",
                                    "a", "%", "4", "0", "b", ".", "c", "o", "m">>
                ELSE /\ url = << >>
                     /\ StepsOf({"navigate"}) = {}

\* A click on the anchor of j+x / b.com navigated to mailto:j%2Bx%40b.com.
C15_Witness ==
    /\ last.op = "click"
    /\ last.ev.user = Attr(<<"j", "+", "x">>)
    /\ last.navigate = <<"m", "a", "i", "l", "t", "o", ":", "j", "%", "2", "B", "x",
                         "%", "4", "0", "b", ".", "c", "o", "m">>

LinksOutsideWindow ==
    {j \in DOMAIN linkStyle :
        j < VisibleWindow(last.activeIndex, page.nLinks).start
        \/ j > VisibleWindow(last.activeIndex, page.nLinks).end}

\* The inline styles the claim names, for link j and active index a.
StyledByDistance(j, a) ==
    IF j \in LinksOutsideWindow
    THEN /\ linkStyle[j].opacity = "0"
         /\ linkStyle[j].visibility = "hidden"
         /\ linkStyle[j].pointerEvents = "none"
    ELSE /\ linkStyle[j].visibility = "visible"
         /\ linkStyle[j].opacity =
                (IF j = a THEN "1" ELSE IF j - a \in {-1, 1} THEN "0.5" ELSE "0.3")

SeparatorsIn(str) ==
    {i \in 1..(Len(str) - 2) : <<str[i], str[i + 1], str[i + 2]>> = <<" ", "-", " ">>}

\* C16: every quote selection returns one of the strings of the fixed list,
\* and the rendered pair is that string split at ' - ': the text is what
\* precedes it and the author what follows it (author 'Anonymous' for a
\* string without ' - ').
C16_QuoteSplit ==
    /\ (last.op = "initializeQuote" /\ ~last.skipped) =>
          LET q == last.returned
              at == CHOOSE i \in SeparatorsIn(q) : \A k \in SeparatorsIn(q) : i <= k
          IN  /\ \E k \in 1..12 : q = quotes[k]
              /\ SeparatorsIn(q) # {}
              /\ quoteText = <<"\"">> \o SubSeq(q, 1, at - 1) \o <<"\"">>
              /\ quoteAuthor = <<"U+2014", " ">> \o SubSeq(q, at + 3, Len(q))
    /\ parseQuote(<<"N", "o", " ", "d", "a", "s", "h", "-", "h", "e", "r", "e">>)
          = [text |-> <<"N", "o", " ", "d", "a", "s", "h", "-", "h", "e", "r", "e">>,
             author |-> <<"A", "n", "o", "n", "y", "m", "o", "u", "s">>]

\* The last quote of the list was drawn and rendered with its author.
C16_Witness ==
    /\ last.op = "initializeQuote" /\ ~last.skipped
    /\ last.returned = quotes[12]
    /\ quoteAuthor = <<"U+2014", " ", "J", "o", "h", "n", " ", "F", "u", "r", "r", "i", "e", "r">>
    /\ quoteText # << >>

\* C17: after a click on an audience tab that carries data-audience, that tab
\* is the one active tab and the active panels are exactly the panel whose
\* data-content equals the tab's data-audience; a click on a tab without
\* data-audience changes nothing.
C17_OneActiveTab ==
    /\ []((last.op = "tabClick" /\ ~last.ignored) =>
            /\ tabActive = {last.tab}
            /\ Cardinality(tabActive) = 1
            /\ panelActive = {j \in DOMAIN tabPage.panels :
                                 tabPage.panels[j] = tabPage.tabs[last.tab]}
            /\ Cardinality(panelActive) <= 1)
    /\ [][(last'.op = "tabClick" /\ last'.ignored) =>
            /\ tabActive' = tabActive /\ panelActive' = panelActive
            /\ tabSelected' = tabSelected /\ panelHidden' = panelHidden]_vars

\* The third tab was clicked while another tab and panel were active; its
\* panel is now the only active one.
C17_Witness ==
    /\ last.op = "tabClick" /\ ~last.ignored
    /\ last.tab = 3
    /\ Len(tabPage.panels) = 3
    /\ tabActive = {3} /\ panelActive = {3}
    /\ tabSelected[1] = "false"

\* C19: two invocations of a function wrapped by throttle(func, limit) are at
\* least limit ms apart; a call that arrives while the window is open is
\* dropped and never executed later (func only ever runs inside a call of
\* the wrapper, with that call's arguments), and a call that arrives with the
\* window closed runs func at once.
C19_Throttle ==
    /\ []((last.op = "throttledCall" /\ last.ran /\ last.previous # -1) =>
            /\ history.throttle.at = now
            /\ now - last.previous >= 100)
    /\ [][history'.throttle # history.throttle =>
            /\ last'.op = "throttledCall"
            /\ ~inThrottle
            /\ history'.throttle = [at |-> now, args |-> last'.args]]_vars
    /\ [][(last'.op = "throttledCall" /\ inThrottle) =>
            /\ history' = history
            /\ timeouts' = timeouts
            /\ inThrottle']_vars
    /\ [][(last'.op = "throttledCall" /\ last' # last /\ ~inThrottle) =>
            history'.throttle = [at |-> now, args |-> last'.args]]_vars

\* func ran a second time, exactly limit ms after it ran first.
C19_Witness ==
    /\ last.op = "throttledCall" /\ last.ran
    /\ history.throttle.at = now
    /\ last.previous # -1
    /\ now - last.previous = 100
    /\ history.throttle.args = "event2"

\* C20: a function wrapped by debounce(func, wait) is invoked only by the
\* timer, once wait ms have passed since the last trigger, at most once per
\* burst and with the arguments of the burst's last trigger; and after a
\* burst it is invoked.
C20_Debounce ==
    /\ [](last.op = "later" =>
            /\ now - history.trigger.at >= 200
            /\ history.debounce = [at |-> now, args |-> history.trigger.args]
            /\ history.runs = 1)
    /\ [](history.runs <= 1)
    /\ [][history'.debounce # history.debounce => last'.op = "later"]_vars
    /\ (timeouts # {}) ~> (timeouts = {} /\ history.runs = 1
                           /\ history.debounce.args = history.trigger.args)

\* A burst whose last trigger came less than wait ms after the page was
\* loaded ended; func ran once, wait ms or more after that trigger and with
\* its arguments.
C20_Witness ==
    /\ last.op = "later"
    /\ history.trigger.at \in 1..199
    /\ history.trigger.args = "event2"
    /\ history.debounce.at >= history.trigger.at + 200
    /\ history.debounce.args = "event2"
    /\ history.runs = 1

\* C22: when a DOM operation throws while collapseWithAnimation collapses a
\* badge (reading its height, or after the measured height was written), the
\* badge still ends without the class 'expanded', toggleCert goes on to toggle
\* its own target (the exception does not leave collapseWithAnimation), and at
\* most one badge is expanded afterwards.
C22_CollapseFallback ==
    (last.op = "toggleCert" /\ last.threw # {}) =>
        /\ last.threw \cap certExpanded = {}
        /\ (~last.wasExpanded) => certExpanded = {last.el}
        /\ last.wasExpanded => certExpanded = {}
        /\ Cardinality(certExpanded) <= 1

\* A click on a collapsed badge closed its expanded sibling, and the sibling's
\* collapse threw: the sibling is closed and the clicked badge is open.
C22_Witness ==
    /\ last.op = "toggleCert"
    /\ ~last.wasExpanded
    /\ last.threw # {}
    /\ last.el \notin last.threw
    /\ certExpanded = {last.el}

\* C23: certification badges and project cards are independent toggle groups:
\* toggleCert changes the 'expanded' class of no project card, and
\* toggleProject changes the 'expanded' class (and the inline height) of no
\* certification badge.
C23_GroupsIndependent ==
    [][/\ last'.op = "toggleCert" => projExpanded' = projExpanded
       /\ last'.op = "toggleProject" =>
              (certExpanded' = certExpanded /\ certHeight' = certHeight)]_vars

\* A project card was expanded while a badge is expanded, and both are open.
C23_Witness ==
    /\ last.op = "toggleProject"
    /\ ~last.wasExpanded
    /\ projExpanded = {last.el}
    /\ certExpanded # {}

\* C24: under every interleaving of toggle clicks and cleanup-timer firings,
\* no badge carries the class 'expanded' while its inline height is still the
\* fixed collapsed height (275px) left by an earlier collapse.
C24_NoStaleHeight ==
    \A b \in Badges : ~(b \in certExpanded /\ certHeight[b] = CERT_COLLAPSED_HEIGHT)

\* The pending scrollIntoView timers among tm.
ScrollTimersIn(tm) == {i \in 1..Len(tm) : tm[i].kind = "scroll"}

\* C26: a toggle that expands an element schedules exactly one scrollIntoView
\* of that element, due 300 ms later; a toggle that collapses an element
\* schedules none; and a scheduled scrollIntoView runs when its 300 ms are over.
C26_ScrollAfterExpand ==
    [][/\ (last'.op \in {"toggleCert", "toggleProject"} /\ ~last'.wasExpanded) =>
              /\ Cardinality(ScrollTimersIn(timers')) = Cardinality(ScrollTimersIn(timers)) + 1
              /\ timers'[Len(timers')] =
                    [kind |-> "scroll", el |-> last'.el, due |-> 300,
                     grp |-> IF last'.op = "toggleCert" THEN "cert" ELSE "project"]
              /\ \A i \in 1..Len(timers) : timers'[i] = timers[i]
       /\ (last'.op \in {"toggleCert", "toggleProject"} /\ last'.wasExpanded) =>
              /\ Cardinality(ScrollTimersIn(timers')) = Cardinality(ScrollTimersIn(timers))
              /\ \A i \in ScrollTimersIn(timers') : i \in ScrollTimersIn(timers)
       /\ last'.op = "scroll" =>
              \E i \in ScrollTimersIn(timers) :
                  /\ timers[i].due = 0
                  /\ timers[i].el = last'.el /\ timers[i].grp = last'.grp
                  /\ Len(timers') = Len(timers) - 1
       /\ last'.op = "tick" =>
              \A i \in ScrollTimersIn(timers) : timers[i].due = 300 /\ timers'[i].due = 0]_vars

\* The scroll of an expanded badge has just run, 300 ms after the click that
\* expanded it; the badge is still expanded.
C26_Witness ==
    /\ last.op = "scroll"
    /\ last.grp = "cert"
    /\ last.el \in certExpanded

\* C30: when no section has offsetTop - 150 <= scrollY and the page is not
\* within the bottom threshold, updateActiveNavLink takes the first section of
\* the document as the active one; and when no sidebar link's href names the
\* active section, every link loses the class 'active' while the links'
\* visibility, opacity and the nav list's transform stay as they were.
C30_DefaultSectionAndNoLink ==
    [][(last'.op = "updateActiveNavLink" /\ ~last'.early) =>
          /\ (PassedSections = {} /\ ~WithinBottomThreshold) => last'.currentSection = 0
          /\ (\A j \in DOMAIN page.hrefs : page.hrefs[j] # last'.currentSection) =>
                /\ \A j \in DOMAIN linkActive' : ~linkActive'[j]
                /\ linkStyle' = linkStyle
                /\ navTransform' = navTransform]_vars

\* An update at the top of a page whose first section has no sidebar link:
\* the first section is active by default, no link is active, and the styles
\* and the transform of an earlier update are still in place.
C30_Witness ==
    /\ last.op = "updateActiveNavLink" /\ ~last.early
    /\ PassedSections = {} /\ ~WithinBottomThreshold
    /\ last.currentSection = 0
    /\ last.activeIndex = -1
    /\ \A j \in DOMAIN linkActive : ~linkActive[j]
    /\ navTransform.set
    /\ \E j \in DOMAIN linkStyle : linkStyle[j].visibility = "hidden"

C29_ErrorBuffer ==
    /\ [](/\ Len(errors) <= 50
          /\ \A i \in 1..Len(errors) : errors[i].n = logged - Len(errors) + i
          /\ last.op = "logError" =>
                /\ errors # << >> /\ errors[Len(errors)].n = last.n
                /\ last.called = 1..Len(listeners))
    /\ [][last'.op = "logError" =>
            /\ Len(errors') = (IF Len(errors) < 50 THEN Len(errors) + 1 ELSE 50)
            /\ Len(errors) = 50 => \A i \in 1..49 : errors'[i] = errors[i + 1]
            /\ Len(errors) < 50 => \A i \in 1..Len(errors) : errors'[i] = errors[i]]_vars

\* The 51st entry since the buffer was last empty has been logged: the buffer
\* is full and its oldest entry has gone; the first of two listeners threw and
\* the second was called all the same.
C29_Witness ==
    /\ last.op = "logError"
    /\ Len(errors) = 50
    /\ errors[1].n > 1
    /\ Len(listeners) = 2
    /\ 1 \in last.caught /\ 2 \in last.called

\* The retry delays retryDelay * 1, ..., retryDelay * k.
RetryDelays(k) == [i \in 1..k |-> net.retryDelay * i]

OtherScript(p) == [p EXCEPT !.script = IF p.script = "main" THEN "modules" ELSE "main"]

\* C27: the single-file variant (js/main.js) and the modular variant behave the
\* same: from the same document state, a scroll update of either leaves the
\* same active sidebar link and the same links hidden from or exposed to the
\* user, in visibility, opacity and aria-hidden.
C27_VariantsEquivalent ==
    [][last'.op = "updateActiveNavLink" =>
          LET other == updateActiveNavLinkResult(OtherScript(page), scrollY, Sidebar).sidebar
          IN  /\ linkActive' = other.linkActive
              /\ \A j \in DOMAIN linkStyle' :
                    /\ linkStyle'[j].visibility = other.linkStyle[j].visibility
                    /\ linkStyle'[j].opacity = other.linkStyle[j].opacity
                    /\ linkStyle'[j].ariaHidden = other.linkStyle[j].ariaHidden]_vars
\* What the scripts change in the document: classes, inline styles, text and
\* aria attributes.
DomState ==
    <<certExpanded, projExpanded, certHeight, linkActive, linkStyle, navTransform,
      quoteText, quoteAuthor, tabActive, panelActive, tabSelected, panelHidden,
      floatStyle, emailText>>

SidebarIncomplete(p) ==
    ~p.sidebar \/ ~p.arcContainer \/ ~p.navList \/ p.nSections = 0 \/ p.nLinks = 0

\* C21: an initializer or handler whose element is absent (no #quote or
\* #quote-author; no #sidebar, .sidebar-arc or .sidebar-nav, no sections, no
\* sidebar links; no #floatingContact or #contact; no .audience-tab; no
\* data-user/data-domain element; a null toggle target) returns with the
\* document as it was, and the other initializers of initializeApp still do
\* their work and the listeners are still registered.
C21_MissingElementsAreNoOps ==
    [][/\ last'.op = "initializeApp" =>
            /\ quoteEls # {"quote", "quote-author"} => UNCHANGED <<quoteText, quoteAuthor>>
            /\ SidebarIncomplete(page) => UNCHANGED <<linkActive, linkStyle, navTransform>>
            /\ Len(tabPage.tabs) = 0 => UNCHANGED tabVars /\ "tabClick" \notin registered'
            /\ Len(doc.emailEls) = 0 => UNCHANGED emailText
            /\ ~doc.floatingContact => "contactScroll" \notin registered'
            /\ UNCHANGED <<floatStyle, toggleVars>>
            \* the remaining initializers ran
            /\ {"click", "scroll", "resize", "orientationchange"} \subseteq registered'
            /\ quoteEls = {"quote", "quote-author"} =>
                    quoteText' # << >> /\ quoteAuthor' # << >>
            /\ ~SidebarIncomplete(page) =>
                    linkActive' = [j \in DOMAIN page.hrefs |->
                                      page.hrefs[j] = CurrentSection(page, scrollY)]
            /\ Len(tabPage.tabs) > 0 =>
                    /\ "tabClick" \in registered'
                    /\ page.script = "modules" =>
                          panelHidden' = [c \in DOMAIN tabPage.panels |->
                                             IF c \in panelActive THEN "false" ELSE "true"]
            /\ doc.floatingContact => "contactScroll" \in registered'
            /\ \A i \in DOMAIN doc.emailEls :
                    (doc.emailEls[i].tag = "SPAN"
                     /\ constructEmail(doc.emailEls[i].user, doc.emailEls[i].domain).ok)
                    => emailText'[i] # << >>
       /\ (last'.op = "updateActiveNavLink" /\ SidebarIncomplete(page)) => UNCHANGED DomState
       /\ (last'.op = "handleContactScroll" /\ ~doc.contact) => UNCHANGED DomState
       /\ last'.op = "toggleNoElement" => UNCHANGED <<DomState, timers>>
       /\ (last'.op = "click" /\ last'.ev.emailTag # "A") =>
              UNCHANGED <<DomState, timers>> /\ last'.navigate = << >>
      ]_vars

\* initializeApp has run on a page with #quote but no #quote-author, no
\* sidebar and no e-mail elements, and yet with tabs and a floating contact
\* button: the quote is untouched, the panels have their aria-hidden and the
\* listeners are there.
C21_Witness ==
    /\ last.op = "initializeApp"
    /\ quoteEls = {"quote"} /\ quoteText = << >>
    /\ ~page.sidebar /\ page.script = "modules"
    /\ Len(doc.emailEls) = 0
    /\ Len(tabPage.tabs) = 2 /\ panelHidden = <<"false", "true">>
    /\ doc.floatingContact /\ ~doc.contact
    /\ {"click", "tabClick", "contactScroll"} \subseteq registered

====
